---- MODULE Spec2Model ----
(***************************************************************************)
(* Model of the product-create webhook pipeline of src/server.js (the v4    *)
(* server, lines 690-1105): attribute inference, price decision, and the   *)
(* sequence of Shopify Admin calls issued by the handler.                  *)
(*                                                                         *)
(* Text is a sequence of one-character strings.  A character outside ASCII *)
(* is one element with a spelled-out name ("emdash", "rsquo", "dprime").   *)
(* Money is an integer number of pence (329.99 is 32999); the benchmark    *)
(* computation uses tenths of a penny so that med * 1.1 stays exact.       *)
(***************************************************************************)
EXTENDS Integers, Sequences, FiniteSets, TLC

\* ------------------------------------------------------------------ bounds
\* Deliveries of the same event handled one after the other (SpecRedelivery).
MaxRuns == 2
\* Longest raw competitor sample the external price source returns.
MaxSample == 2
\* how many times another writer edits the product's tags
MaxEdits == 1

\* ------------------------------------------------------------ text helpers
Digit == {"0","1","2","3","4","5","6","7","8","9"}
LowerAlpha == {"a","b","c","d","e","f","g","h","i","j","k","l","m",
               "n","o","p","q","r","s","t","u","v","w","x","y","z"}
UpperAlpha == {"A","B","C","D","E","F","G","H","I","J","K","L","M",
               "N","O","P","Q","R","S","T","U","V","W","X","Y","Z"}
\* \w of a JavaScript regular expression
IsWordChar(c) == c \in Digit \cup LowerAlpha \cup UpperAlpha \cup {"_"}
\* \s of a JavaScript regular expression (the whitespace the payloads use)
IsSpace(c) == c \in {" ", "\n", "\t"}

\* String.prototype.toLowerCase on one character
LowerChar(c) ==
  CASE c = "A" -> "a" [] c = "B" -> "b" [] c = "C" -> "c" [] c = "D" -> "d"
    [] c = "E" -> "e" [] c = "F" -> "f" [] c = "G" -> "g" [] c = "H" -> "h"
    [] c = "I" -> "i" [] c = "J" -> "j" [] c = "K" -> "k" [] c = "L" -> "l"
    [] c = "M" -> "m" [] c = "N" -> "n" [] c = "O" -> "o" [] c = "P" -> "p"
    [] c = "Q" -> "q" [] c = "R" -> "r" [] c = "S" -> "s" [] c = "T" -> "t"
    [] c = "U" -> "u" [] c = "V" -> "v" [] c = "W" -> "w" [] c = "X" -> "x"
    [] c = "Y" -> "y" [] c = "Z" -> "z" [] OTHER -> c
ToLower(s) == [i \in 1..Len(s) |-> LowerChar(s[i])]

\* w occurs in s starting at position i
MatchAt(s, i, w) ==
  /\ i >= 1
  /\ i + Len(w) - 1 <= Len(s)
  /\ \A k \in 1..Len(w) : s[i + k - 1] = w[k]
\* String.prototype.includes / an unanchored literal regular expression
Includes(s, w) == \E i \in 1..(Len(s) + 1) : MatchAt(s, i, w)
\* \b between positions i-1 and i of s
BoundaryAt(s, i) ==
  LET before == i >= 2 /\ i - 1 <= Len(s) /\ IsWordChar(s[i - 1])
      after  == i >= 1 /\ i <= Len(s) /\ IsWordChar(s[i])
  IN  before # after
\* /\bw\b/.test(s)
HasWord(s, w) ==
  \E i \in 1..(Len(s) + 1) :
     MatchAt(s, i, w) /\ BoundaryAt(s, i) /\ BoundaryAt(s, i + Len(w))

\* the last position of c in s, 0 when absent
LastIndexOf(s, c) ==
  LET hits == {i \in 1..Len(s) : s[i] = c}
  IN  IF hits = {} THEN 0 ELSE CHOOSE i \in hits : \A j \in hits : j <= i

DigitVal(c) ==
  CASE c = "0" -> 0 [] c = "1" -> 1 [] c = "2" -> 2 [] c = "3" -> 3
    [] c = "4" -> 4 [] c = "5" -> 5 [] c = "6" -> 6 [] c = "7" -> 7
    [] c = "8" -> 8 [] c = "9" -> 9 [] OTHER -> 0
DigitChar(d) ==
  CASE d = 0 -> "0" [] d = 1 -> "1" [] d = 2 -> "2" [] d = 3 -> "3"
    [] d = 4 -> "4" [] d = 5 -> "5" [] d = 6 -> "6" [] d = 7 -> "7"
    [] d = 8 -> "8" [] OTHER -> "9"

\* Number(str) for a string of decimal digits; -1 stands for NaN
RECURSIVE DigitsValue(_)
DigitsValue(s) ==
  IF s = <<>> THEN 0
  ELSE 10 * DigitsValue(SubSeq(s, 1, Len(s) - 1)) + DigitVal(s[Len(s)])
ToNumber(s) ==
  IF s = <<>> THEN 0
  ELSE IF \A i \in 1..Len(s) : s[i] \in Digit THEN DigitsValue(s) ELSE -1

\* the decimal text of a number as a template literal prints it
RECURSIVE NatText(_)
NatText(n) ==
  IF n < 10 THEN <<DigitChar(n)>> ELSE NatText(n \div 10) \o <<DigitChar(n % 10)>>
NumText(n) == IF n < 0 THEN <<"N","a","N">> ELSE NatText(n)

\* ---------------------------------------------------------------- helpers
\* clamp: (s || "").toString().trim().replace(/\s+/g, " ").slice(0, n)
TrimLeft(s) ==
  LET keep == {i \in 1..Len(s) : ~IsSpace(s[i])}
  IN  IF keep = {} THEN <<>>
      ELSE SubSeq(s, CHOOSE i \in keep : \A j \in keep : i <= j, Len(s))
TrimRight(s) ==
  LET keep == {i \in 1..Len(s) : ~IsSpace(s[i])}
  IN  IF keep = {} THEN <<>>
      ELSE SubSeq(s, 1, CHOOSE i \in keep : \A j \in keep : j <= i)
Trim(s) == TrimRight(TrimLeft(s))
\* replace(/\s+/g, " "): every maximal run of whitespace becomes one space.
\* Position i of s survives when it is no whitespace or starts a run; the
\* range lo..hi is halved so that long texts need little nesting.
RECURSIVE CollapseRange(_, _, _)
CollapseRange(s, lo, hi) ==
  IF lo > hi THEN <<>>
  ELSE IF lo = hi
       THEN IF ~IsSpace(s[lo]) THEN <<s[lo]>>
            ELSE IF lo = 1 \/ ~IsSpace(s[lo - 1]) THEN <<" ">> ELSE <<>>
       ELSE LET mid == (lo + hi) \div 2
            IN  CollapseRange(s, lo, mid) \o CollapseRange(s, mid + 1, hi)
CollapseSpaces(s) == CollapseRange(s, 1, Len(s))
Slice(s, n) == SubSeq(s, 1, IF Len(s) < n THEN Len(s) ELSE n)
\* clamp without the slice: whitespace normalised, length not limited
clampUncut(s, n) == CollapseSpaces(Trim(s))
clamp(s, n) == Slice(CollapseSpaces(Trim(s)), n)

\* uniq without the Set: arr.filter(Boolean), repetitions kept
uniqOfKeepingRepeats(arr, falsy) == SelectSeq(arr, LAMBDA x : x # falsy)

\* uniq: Array.from(new Set(arr.filter(Boolean))): the truthy elements, first
\* occurrences only, in order.  falsy is the element filter(Boolean) drops:
\* "" for a list of strings, 0 (also standing for null) for a list of numbers.
RECURSIVE uniqOf(_, _)
uniqOf(arr, falsy) ==
  IF arr = <<>> THEN <<>>
  ELSE LET init == uniqOf(SubSeq(arr, 1, Len(arr) - 1), falsy)
           x    == arr[Len(arr)]
       IN  IF x = falsy \/ (\E i \in 1..Len(init) : init[i] = x)
           THEN init ELSE Append(init, x)

\* toNumericId: gid ? String(gid).split("/").pop() : null  (<<>> is the absent gid)
toNumericId(gid) == SubSeq(gid, LastIndexOf(gid, "/") + 1, Len(gid))
\* Number(toNumericId(gid)): Number(null) and Number("") are 0
idNumOf(gid) == ToNumber(toNumericId(gid))

\* case-insensitive literal match (the i flag), w given in lower case
MatchAtCI(s, i, w) == MatchAt(ToLower(s), i, w)

\* the least element of a non-empty set of positions
MinOf(S) == CHOOSE i \in S : \A j \in S : i <= j

\* stripImages: .replace(/<figure[\s\S]*?<\/figure>/gi, "").replace(/<img[\s\S]*?>/gi, "")
RECURSIVE StripFigures(_)
StripFigures(s) ==
  LET open  == <<"<","f","i","g","u","r","e">>
      close == <<"<","/","f","i","g","u","r","e",">">>
      starts == {i \in 1..Len(s) :
                   /\ MatchAtCI(s, i, open)
                   /\ \E j \in (i + Len(open))..Len(s) : MatchAtCI(s, j, close)}
  IN  IF starts = {} THEN s
      ELSE LET i == MinOf(starts)
               j == MinOf({k \in (i + Len(open))..Len(s) : MatchAtCI(s, k, close)})
           IN  SubSeq(s, 1, i - 1) \o StripFigures(SubSeq(s, j + Len(close), Len(s)))
RECURSIVE StripImgs(_)
StripImgs(s) ==
  LET open == <<"<","i","m","g">>
      starts == {i \in 1..Len(s) :
                   /\ MatchAtCI(s, i, open)
                   /\ \E j \in (i + Len(open))..Len(s) : s[j] = ">"}
  IN  IF starts = {} THEN s
      ELSE LET i == MinOf(starts)
               j == MinOf({k \in (i + Len(open))..Len(s) : s[k] = ">"})
           IN  SubSeq(s, 1, i - 1) \o StripImgs(SubSeq(s, j + 1, Len(s)))
stripImages(html) == StripImgs(StripFigures(html))

\* .replace(/<[^>]+>/g, " "): every tag becomes one space
RECURSIVE StripTags(_)
StripTags(s) ==
  LET starts == {i \in 1..Len(s) :
                   /\ s[i] = "<"
                   /\ i + 1 <= Len(s) /\ s[i + 1] # ">"
                   /\ \E j \in (i + 2)..Len(s) : s[j] = ">"}
  IN  IF starts = {} THEN s
      ELSE LET i == MinOf(starts)
               j == MinOf({k \in (i + 2)..Len(s) : s[k] = ">"})
           IN  SubSeq(s, 1, i - 1) \o <<" ">> \o StripTags(SubSeq(s, j + 1, Len(s)))

\* ELECTRONICS_WORDS.test(title), case-insensitive
ElectronicsList ==
  << <<"i","p","h","o","n","e">>,
     <<"s","a","m","s","u","n","g">>,
     <<"p","i","x","e","l">>,
     <<"g","a","l","a","x","y">>,
     <<"a","i","r","p","o","d","s">>,
     <<"p","s","5">>,
     <<"x","b","o","x">>,
     <<"l","a","p","t","o","p">>,
     <<"c","a","m","e","r","a">>,
     <<"t","a","b","l","e","t">>,
     <<"p","h","o","n","e">> >>
\* the keyword test without the i flag
ELECTRONICS_WORDS_CaseSensitive(title) ==
  \E k \in 1..Len(ElectronicsList) : Includes(title, ElectronicsList[k])
ELECTRONICS_WORDS(title) ==
  \E k \in 1..Len(ElectronicsList) : Includes(ToLower(title), ElectronicsList[k])

\* an inferMaterial that tests for silver before it tests for moissanite
inferMaterialSilverFirst(text) ==
  LET s == ToLower(text)
  IN  IF HasWord(s, <<"s","9","2","5">>) \/ Includes(s, <<"s","t","e","r","l","i","n","g"," ","s","i","l","v","e","r">>)
      THEN "s925+plain"
      ELSE IF HasWord(s, <<"m","o","i","s","s","a","n","i","t","e">>)
              /\ (HasWord(s, <<"s","9","2","5">>) \/ Includes(s, <<"s","t","e","r","l","i","n","g">>))
      THEN "s925+moissanite"
      ELSE IF Includes(s, <<"s","t","a","i","n","l","e","s","s">>)
      THEN "steel+plain"
      ELSE "alloy+stone"
\* inferMaterial: first rule that matches wins
inferMaterial(text) ==
  LET s == ToLower(text)
  IN  IF HasWord(s, <<"m","o","i","s","s","a","n","i","t","e">>)
         /\ (HasWord(s, <<"s","9","2","5">>) \/ Includes(s, <<"s","t","e","r","l","i","n","g">>))
      THEN "s925+moissanite"
      ELSE IF HasWord(s, <<"s","9","2","5">>) \/ Includes(s, <<"s","t","e","r","l","i","n","g"," ","s","i","l","v","e","r">>)
      THEN "s925+plain"
      ELSE IF Includes(s, <<"s","t","a","i","n","l","e","s","s">>)
      THEN "steel+plain"
      ELSE "alloy+stone"

\* parseLengthMM: millimetres, then centimetres, then inches; 0 stands for null
SkipSpaces(s, j) ==
  MinOf({k \in j..(Len(s) + 1) : k = Len(s) + 1 \/ ~IsSpace(s[k])})
IsDigitAt(s, i) == i >= 1 /\ i <= Len(s) /\ s[i] \in Digit
\* /\b(4[0-9]{2}|5[0-9]{2})\s*mm\b/
MatchMM(s, i) ==
  /\ BoundaryAt(s, i)
  /\ i <= Len(s) /\ s[i] \in {"4", "5"}
  /\ IsDigitAt(s, i + 1) /\ IsDigitAt(s, i + 2)
  /\ LET u == SkipSpaces(s, i + 3)
     IN  MatchAt(s, u, <<"m","m">>) /\ BoundaryAt(s, u + 2)
\* /\b(4[0-9]|5[0-9])\s*cm\b/
MatchCM(s, i) ==
  /\ BoundaryAt(s, i)
  /\ i <= Len(s) /\ s[i] \in {"4", "5"}
  /\ IsDigitAt(s, i + 1)
  /\ LET u == SkipSpaces(s, i + 2)
     IN  MatchAt(s, u, <<"c","m">>) /\ BoundaryAt(s, u + 2)
\* /\b(1[6-9]|2[0-2])\s*("|inch|in)\b/
MatchInch(s, i) ==
  /\ BoundaryAt(s, i)
  /\ i + 1 <= Len(s)
  /\ \/ s[i] = "1" /\ s[i + 1] \in {"6","7","8","9"}
     \/ s[i] = "2" /\ s[i + 1] \in {"0","1","2"}
  /\ LET u == SkipSpaces(s, i + 2)
     IN  \/ MatchAt(s, u, <<"\"">>) /\ BoundaryAt(s, u + 1)
         \/ MatchAt(s, u, <<"i","n","c","h">>) /\ BoundaryAt(s, u + 4)
         \/ MatchAt(s, u, <<"i","n">>) /\ BoundaryAt(s, u + 2)
parseLengthMM(str) ==
  LET s  == ToLower(str)
      mm == {i \in 1..Len(s) : MatchMM(s, i)}
      cm == {i \in 1..Len(s) : MatchCM(s, i)}
      inch == {i \in 1..Len(s) : MatchInch(s, i)}
  IN  IF str = <<>> THEN 0
      ELSE IF mm # {} THEN DigitsValue(SubSeq(s, MinOf(mm), MinOf(mm) + 2))
      ELSE IF cm # {} THEN DigitsValue(SubSeq(s, MinOf(cm), MinOf(cm) + 1)) * 10
      ELSE IF inch # {}
           THEN (DigitsValue(SubSeq(s, MinOf(inch), MinOf(inch) + 1)) * 254 + 5) \div 10
      ELSE 0
\* parseLengthMM(v.title) || parseLengthMM(v.option1) || parseLengthMM(v.option2) || parseLengthMM(v.option3)
variantLengthMM(v) ==
  IF parseLengthMM(v.title) # 0 THEN parseLengthMM(v.title)
  ELSE IF parseLengthMM(v.option1) # 0 THEN parseLengthMM(v.option1)
  ELSE IF parseLengthMM(v.option2) # 0 THEN parseLengthMM(v.option2)
  ELSE parseLengthMM(v.option3)

\* ----------------------------------------------------------------- pricing
ladderPriceForMoissanite(mm) ==
  IF mm = 0 THEN 32999
  ELSE IF mm <= 460 THEN 32999
  ELSE IF mm <= 510 THEN 34999
  ELSE 36999

fallbackPrice(material) ==
  IF material = "s925+moissanite" THEN 32999
  ELSE IF material = "s925+plain" THEN 2499
  ELSE IF material = "steel+plain" THEN 1499
  ELSE 2199

\* [...prices].sort((a, b) => a - b)
RECURSIVE SortAsc(_)
SortAsc(s) ==
  IF Len(s) <= 1 THEN s
  ELSE LET m    == CHOOSE i \in 1..Len(s) : \A j \in 1..Len(s) : s[i] <= s[j]
           rest == SubSeq(s, 1, m - 1) \o SubSeq(s, m + 1, Len(s))
       IN  <<s[m]>> \o SortAsc(rest)

\* fetchCompetitorPrices, after the reply: keep the truthy extracted prices,
\* then .filter((x) => x > 4 && x < 800)
FilterSane(raw) == SelectSeq(raw, LAMBDA x : x # 0 /\ x > 400 /\ x < 80000)

\* pickPriceFromCompetitors: 0 stands for null
pickPriceFromCompetitors(prices) ==
  IF prices = <<>> THEN 0
  ELSE LET s       == SortAsc(prices)
           med     == s[(Len(s) \div 2) + 1]
           \* med * 1.1 in tenths of a penny, clamped to [9.99, 399.99]
           marked  == med * 11
           clamped == IF marked < 9990 THEN 9990
                      ELSE IF marked > 399990 THEN 399990 ELSE marked
           \* Math.round(clamped) + 0.99
       IN  ((clamped + 500) \div 1000) * 100 + 99

\* a sanitising that rounds and forgets the .99 ending
sanitisePriceRoundOnly(price) ==
  LET p0 == IF price <= 0 THEN 999 ELSE price
      p1 == IF p0 < 699 THEN 699 ELSE IF p0 > 49999 THEN 49999 ELSE p0
  IN  ((p1 + 50) \div 100) * 100
\* updateVariantPrice, the sanitising of the price before it is sent
sanitisePrice(price) ==
  LET p0 == IF price <= 0 THEN 999 ELSE price
      p1 == IF p0 < 699 THEN 699 ELSE IF p0 > 49999 THEN 49999 ELSE p0
  IN  ((p1 + 50) \div 100) * 100 + 99

\* a price decision that prefers the benchmark to the ladder
decidePriceBenchFirst(material, mm, benchPrice) ==
  IF benchPrice # 0 THEN benchPrice
  ELSE IF material = "s925+moissanite" /\ mm # 0 THEN ladderPriceForMoissanite(mm)
  ELSE fallbackPrice(material)
\* the price decision of the variant loop
decidePrice(material, mm, benchPrice) ==
  IF material = "s925+moissanite" /\ mm # 0 THEN ladderPriceForMoissanite(mm)
  ELSE IF benchPrice # 0 THEN benchPrice
  ELSE fallbackPrice(material)

\* ---------------------------------------------------- attribute inference
UpperChar(c) ==
  CASE c = "a" -> "A" [] c = "b" -> "B" [] c = "c" -> "C" [] c = "d" -> "D"
    [] c = "e" -> "E" [] c = "f" -> "F" [] c = "g" -> "G" [] c = "h" -> "H"
    [] c = "i" -> "I" [] c = "j" -> "J" [] c = "k" -> "K" [] c = "l" -> "L"
    [] c = "m" -> "M" [] c = "n" -> "N" [] c = "o" -> "O" [] c = "p" -> "P"
    [] c = "q" -> "Q" [] c = "r" -> "R" [] c = "s" -> "S" [] c = "t" -> "T"
    [] c = "u" -> "U" [] c = "v" -> "V" [] c = "w" -> "W" [] c = "x" -> "X"
    [] c = "y" -> "Y" [] c = "z" -> "Z" [] OTHER -> c

\* STONE_WORDS, its alternatives in order (tiger'?s eye is two literals)
StoneList ==
  << <<"m","o","i","s","s","a","n","i","t","e">>,
     <<"a","m","e","t","h","y","s","t">>,
     <<"o","p","a","l">>,
     <<"a","g","a","t","e">>,
     <<"c","a","r","n","e","l","i","a","n">>,
     <<"r","o","s","e"," ","q","u","a","r","t","z">>,
     <<"q","u","a","r","t","z">>,
     <<"t","i","g","e","r","'","s"," ","e","y","e">>,
     <<"t","i","g","e","r","s"," ","e","y","e">>,
     <<"o","n","y","x">>,
     <<"m","a","l","a","c","h","i","t","e">>,
     <<"t","u","r","q","u","o","i","s","e">>,
     <<"z","i","r","c","o","n">>,
     <<"c","u","b","i","c"," ","z","i","r","c","o","n","i","a">>,
     <<"c","z">>,
     <<"c","r","y","s","t","a","l">>,
     <<"g","a","r","n","e","t">>,
     <<"r","u","b","y">>,
     <<"s","a","p","p","h","i","r","e">>,
     <<"e","m","e","r","a","l","d">> >>
\* STONE_WORDS.test(s), s in lower case
STONE_WORDS(s) == \E k \in 1..Len(StoneList) : Includes(s, StoneList[k])

\* s.replace(/\b\w/g, c => c.toUpperCase())
CapitalizeWords(s) ==
  [i \in 1..Len(s) |->
     IF IsWordChar(s[i]) /\ BoundaryAt(s, i) THEN UpperChar(s[i]) ELSE s[i]]

\* inferStone: the leftmost match, normalised; <<>> stands for null
inferStone(text) ==
  LET s    == ToLower(text)
      hits == {i \in 1..Len(s) : \E k \in 1..Len(StoneList) : MatchAt(s, i, StoneList[k])}
  IN  IF hits = {} THEN <<>>
      ELSE LET i == MinOf(hits)
               k == MinOf({n \in 1..Len(StoneList) : MatchAt(s, i, StoneList[n])})
               m == StoneList[k]
           IN  IF m = <<"c","z">> \/ m = <<"c","u","b","i","c"," ","z","i","r","c","o","n","i","a">> THEN <<"C","u","b","i","c"," ","Z","i","r","c","o","n","i","a">>
               ELSE IF Includes(m, <<"t","i","g","e","r">>) THEN <<"T","i","g","e","r","rsquo","s"," ","E","y","e">>
               ELSE IF Includes(m, <<"r","o","s","e"," ","q","u","a","r","t","z">>) THEN <<"R","o","s","e"," ","Q","u","a","r","t","z">>
               ELSE CapitalizeWords(m)

\* inferType: only the tags text is lower-cased before the scan
inferType(title, product_type, tagsText) ==
  LET s == title \o <<" ">> \o product_type \o <<" ">> \o ToLower(tagsText)
  IN  IF Includes(s, <<"b","r","a","c","e","l","e","t">>) THEN <<"B","r","a","c","e","l","e","t">>
      ELSE IF Includes(s, <<"e","a","r","r","i","n","g">>) THEN <<"E","a","r","r","i","n","g","s">>
      ELSE IF Includes(s, <<"r","i","n","g">>) THEN <<"R","i","n","g">>
      ELSE IF Includes(s, <<"a","n","k","l","e","t">>) THEN <<"A","n","k","l","e","t">>
      ELSE IF Includes(s, <<"c","h","o","k","e","r">>) THEN <<"C","h","o","k","e","r">>
      ELSE IF Includes(s, <<"t","e","n","n","i","s">>) THEN <<"T","e","n","n","i","s"," ","N","e","c","k","l","a","c","e">>
      ELSE IF Includes(s, <<"p","e","n","d","a","n","t">>) THEN <<"P","e","n","d","a","n","t"," ","N","e","c","k","l","a","c","e">>
      ELSE IF Includes(s, <<"c","h","a","i","n">>) THEN <<"C","h","a","i","n"," ","N","e","c","k","l","a","c","e">>
      ELSE IF Includes(s, <<"n","e","c","k","l","a","c","e">>) THEN <<"N","e","c","k","l","a","c","e">>
      ELSE <<"J","e","w","e","l","r","y">>

\* inferTagsRich: the tags in the order the Set received them
inferTagsRich(text) ==
  LET s == ToLower(text)
      If(c, t) == IF c THEN t ELSE <<>>
  IN  uniqOf(
           If(Includes(s, <<"n","e","c","k","l","a","c","e">>), << <<"n","e","c","k","l","a","c","e","s">> >>)
        \o If(Includes(s, <<"b","r","a","c","e","l","e","t">>), << <<"b","r","a","c","e","l","e","t","s">> >>)
        \o If(Includes(s, <<"e","a","r","r","i","n","g">>), << <<"e","a","r","r","i","n","g","s">> >>)
        \o If(Includes(s, <<"r","i","n","g">>), << <<"r","i","n","g","s">> >>)
        \o If(Includes(s, <<"p","e","n","d","a","n","t">>), << <<"p","e","n","d","a","n","t">> >>)
        \o If(Includes(s, <<"c","h","a","i","n">>), << <<"c","h","a","i","n">> >>)
        \o If(STONE_WORDS(s), << <<"c","r","y","s","t","a","l">>, <<"s","t","o","n","e">> >>)
        \o If(Includes(s, <<"m","o","i","s","s","a","n","i","t","e">>), << <<"m","o","i","s","s","a","n","i","t","e">> >>)
        \o If(Includes(s, <<"s","9","2","5">>) \/ Includes(s, <<"s","t","e","r","l","i","n","g">>),
              << <<"s","9","2","5">>, <<"s","t","e","r","l","i","n","g","-","s","i","l","v","e","r">> >>)
        \o If(Includes(s, <<"s","t","a","i","n","l","e","s","s">>), << <<"s","t","a","i","n","l","e","s","s","-","s","t","e","e","l">> >>)
        \o If(Includes(s, <<"r","e","t","r","o">>) \/ Includes(s, <<"v","i","n","t","a","g","e">>),
              << <<"r","e","t","r","o">>, <<"v","i","n","t","a","g","e">> >>)
        \o If(Includes(s, <<"e","u","r","o","p","e","a","n">>), << <<"e","u","r","o","p","e","a","n">> >>)
        \o If(Includes(s, <<"i","t","a","l","i","a","n">>), << <<"i","t","a","l","i","a","n">> >>)
        \o If(Includes(s, <<"p","a","l","a","c","e">>), << <<"p","a","l","a","c","e">> >>)
        \o If(Includes(s, <<"m","e","d","a","l","l","i","o","n">>) \/ Includes(s, <<"m","e","d","a","l">>), << <<"m","e","d","a","l","l","i","o","n">> >>)
        \o If(Includes(s, <<"f","l","o","w","e","r">>) \/ Includes(s, <<"f","l","o","r","a","l">>), << <<"f","l","o","r","a","l">> >>)
        \o If(Includes(s, <<"s","u","n">>) \/ Includes(s, <<"s","u","n","b","u","r","s","t">>), << <<"s","u","n","b","u","r","s","t">> >>)
        \o If(Includes(s, <<"m","e","n">>), << <<"m","e","n","s">> >>)
        \o If(Includes(s, <<"w","o","m","e","n">>), << <<"w","o","m","e","n","s">> >>)
        \o << <<"g","i","f","t">> >>,
        <<>>)

\* (p.tags || "").split(",").map(t => t.trim()).filter(Boolean)
RECURSIVE SplitComma(_)
SplitComma(s) ==
  LET commas == {i \in 1..Len(s) : s[i] = ","}
  IN  IF commas = {} THEN <<s>>
      ELSE <<SubSeq(s, 1, MinOf(commas) - 1)>>
           \o SplitComma(SubSeq(s, MinOf(commas) + 1, Len(s)))
currentTagsOf(tagsText) ==
  LET parts == SplitComma(tagsText)
  IN  SelectSeq([i \in 1..Len(parts) |-> Trim(parts[i])], LAMBDA t : t # <<>>)
\* tags.join(", ")
RECURSIVE JoinComma(_)
JoinComma(tags) ==
  IF tags = <<>> THEN <<>>
  ELSE IF Len(tags) = 1 THEN tags[1]
  ELSE tags[1] \o <<",", " ">> \o JoinComma(Tail(tags))

\* ------------------------------------------------------ content synthesis
\* (title || "").replace(/\s+\|\s+.*/, "").trim()
cleanTitleOf(title) ==
  LET starts == {i \in 1..Len(title) :
                   /\ IsSpace(title[i])
                   /\ LET b == SkipSpaces(title, i)
                      IN  /\ b <= Len(title) /\ title[b] = "|"
                          /\ b + 1 <= Len(title) /\ IsSpace(title[b + 1])}
  IN  IF starts = {} THEN Trim(title)
      ELSE LET i  == MinOf(starts)
               b  == SkipSpaces(title, i)
               \* \s+ is greedy and .* runs to the end of the line
               e0 == SkipSpaces(title, b + 1)
               nl == {k \in e0..Len(title) : title[k] = "\n"}
               e  == IF nl = {} THEN Len(title) + 1 ELSE MinOf(nl)
           IN  Trim(SubSeq(title, 1, i - 1) \o SubSeq(title, e, Len(title)))

seoMaterialLabel(material) ==
  IF material = "s925+moissanite" THEN <<"M","o","i","s","s","a","n","i","t","e"," ","i","n"," ","S","9","2","5"," ","S","t","e","r","l","i","n","g"," ","S","i","l","v","e","r">>
  ELSE IF material = "s925+plain" THEN <<"S","9","2","5"," ","S","t","e","r","l","i","n","g"," ","S","i","l","v","e","r">>
  ELSE IF material = "steel+plain" THEN <<"S","t","a","i","n","l","e","s","s"," ","S","t","e","e","l">>
  ELSE <<"C","r","y","s","t","a","l"," ","&"," ","A","l","l","o","y">>

seoHook(title, stone) ==
  LET t == ToLower(title)
  IN  IF stone # <<>> /\ Includes(ToLower(stone), <<"m","o","i","s","s","a","n","i","t","e">>)
      THEN <<"B","r","i","l","l","i","a","n","t"," ","s","p","a","r","k","l","e"," ","t","h","a","t"," ","r","i","v","a","l","s"," ","d","i","a","m","o","n","d","s",".">>
      ELSE IF Includes(t, <<"r","e","t","r","o">>) \/ Includes(t, <<"v","i","n","t","a","g","e">>) \/ Includes(t, <<"p","a","l","a","c","e">>)
      THEN <<"V","i","n","t","a","g","e","-","i","n","s","p","i","r","e","d"," ","d","e","t","a","i","l","i","n","g"," ","w","i","t","h"," ","m","o","d","e","r","n"," ","d","u","r","a","b","i","l","i","t","y",".">>
      ELSE <<"H","y","p","o","a","l","l","e","r","g","e","n","i","c",","," ","d","u","r","a","b","l","e"," ","a","n","d"," ","g","i","f","t","-","r","e","a","d","y",".">>

\* seoFrom: <<title, description>>
seoFrom(title, material, type, stone) ==
  LET cleanTitle == cleanTitleOf(title)
      stoneBit   == IF stone # <<>> THEN stone \o <<" ">> ELSE <<>>
      label      == seoMaterialLabel(material)
  IN  << clamp(cleanTitle \o <<" ","|"," ">> \o stoneBit \o label \o <<" ","b","y"," ","D","T","P"," ","J","e","w","e","l","r","y">>, 60),
         clamp(cleanTitle \o <<" ","emdash"," ">> \o type \o <<" ","c","r","a","f","t","e","d"," ","i","n"," ">> \o stoneBit \o label
               \o <<".", " ">> \o seoHook(title, stone), 160) >>

htmlMaterialLabel(material) ==
  IF material = "s925+moissanite" THEN <<"S","9","2","5"," ","s","t","e","r","l","i","n","g"," ","s","i","l","v","e","r"," ","w","i","t","h"," ","m","o","i","s","s","a","n","i","t","e">>
  ELSE IF material = "s925+plain" THEN <<"s","o","l","i","d"," ","S","9","2","5"," ","s","t","e","r","l","i","n","g"," ","s","i","l","v","e","r">>
  ELSE IF material = "steel+plain" THEN <<"s","t","a","i","n","l","e","s","s"," ","s","t","e","e","l">>
  ELSE <<"d","u","r","a","b","l","e"," ","j","e","w","e","l","r","y"," ","a","l","l","o","y"," ","w","i","t","h"," ","p","o","l","i","s","h","e","d"," ","f","i","n","i","s","h">>

\* `${mm}mm (${inches} dprime)` joined by ", "
RECURSIVE sizesText(_)
sizesText(lengths) ==
  IF lengths = <<>> THEN <<>>
  ELSE LET mm     == lengths[1]
           inches == (mm * 10 + 127) \div 254
           one    == NumText(mm) \o <<"m","m"," ","(">> \o NumText(inches) \o <<"dprime", ")">>
       IN  IF Len(lengths) = 1 THEN one
           ELSE one \o <<",", " ">> \o sizesText(Tail(lengths))

\* buildProductHTML: the fixed parts of the template are single elements, the
\* interpolated values are spliced in character by character
buildProductHTML(title, type, material, stone, lengthOptionsMM) ==
  LET materialLabel == htmlMaterialLabel(material)
      stoneLine == IF stone # <<>> THEN stone \o <<" ","a","c","c","e","n","t","s">> ELSE <<"a"," ","h","i","g","h","-","p","o","l","i","s","h"," ","f","i","n","i","s","h">>
      sizes == IF lengthOptionsMM # <<>>
               THEN <<"A","v","a","i","l","a","b","l","e"," ","l","e","n","g","t","h","s",":"," ">> \o sizesText(lengthOptionsMM) \o <<".">>
               ELSE <<>>
      isMoissanite == stone # <<>> /\ Includes(ToLower(stone), <<"m","o","i","s","s","a","n","i","t","e">>)
      t == ToLower(type)
      necklaceLike == Includes(t, <<"n","e","c","k","l","a","c","e">>) \/ Includes(t, <<"p","e","n","d","a","n","t">>) \/ Includes(t, <<"c","h","a","i","n">>)
      whyBullets ==
           (IF isMoissanite
            THEN <<"<li>Diamond-like brilliance with excellent fire</li>", "\n">> ELSE <<>>)
        \o (IF material = "s925+plain"
            THEN <<"<li>Hypoallergenic and comfortable for daily wear</li>", "\n">>
            ELSE <<"<li>Comfortable everyday wear</li>", "\n">>)
        \o (IF necklaceLike
            THEN <<"<li>Versatile piece to layer or wear solo</li>", "\n">>
            ELSE <<"<li>Refined profile for any outfit</li>", "\n">>)
        \o <<"<li>Arrives gift-ready</li>">>
  IN     <<"\n", "<p><strong>">> \o title \o <<"</strong> ", "emdash", " a ">> \o t
      \o <<" crafted from ">> \o materialLabel \o <<" with ">> \o stoneLine
      \o <<". Classic design, refined detailing and durable construction make it an easy upgrade to your everyday style.</p>",
           "\n", "\n", "<p><strong>Why you", "rsquo", "ll love it</strong></p>", "\n", "<ul>", "\n", "  ">>
      \o whyBullets
      \o <<"\n", "</ul>", "\n", "\n", "<p><strong>Details</strong></p>", "\n", "<ul>", "\n",
           "  <li>Material: ">> \o materialLabel \o <<"</li>", "\n", "  ">>
      \o (IF stone # <<>> THEN <<"<li>Stone: ">> \o stone \o <<"</li>">> ELSE <<>>)
      \o <<"\n", "  ">>
      \o (IF sizes # <<>> THEN <<"<li>">> \o sizes \o <<"</li>">> ELSE <<>>)
      \o <<"\n", "  <li>Closure & fit: secure, comfortable wear</li>", "\n", "</ul>", "\n", "\n",
           "<p><strong>Care</strong></p>", "\n",
           "<p>Wipe with a soft dry cloth after wear and store separately to protect the finish and setting.</p>",
           "\n">>

\* ------------------------------------------------------------ the payloads
\* A variant of the payload; <<>> is an absent or empty field.
Variant(gid, title, option1) ==
  [admin_graphql_api_id |-> gid, title |-> title, option1 |-> option1,
   option2 |-> <<>>, option3 |-> <<>>]

EvMoissanite ==
  [title |-> <<"M","o","i","s","s","a","n","i","t","e"," ","T","e","n","n","i","s"," ","N","e","c","k","l","a","c","e"," ","S","9","2","5">>,
   body_html |-> <<>>, tags |-> <<>>, product_type |-> <<>>,
   admin_graphql_api_id |-> <<"g","i","d",":","/","/","s","h","o","p","i","f","y","/","P","r","o","d","u","c","t","/","9","0","0","1">>,
   variants |-> << Variant(<<"g","i","d",":","/","/","s","h","o","p","i","f","y","/","P","r","o","d","u","c","t","V","a","r","i","a","n","t","/","1","4","0","4","5">>, <<>>, <<"1","8"," ","i","n","c","h">>),
                   Variant(<<"g","i","d",":","/","/","s","h","o","p","i","f","y","/","P","r","o","d","u","c","t","V","a","r","i","a","n","t","/","2","0","0","0","1">>, <<"2","0"," ","i","n","c","h">>, <<>>) >>]
EvSteel ==
  [title |-> <<"S","t","a","i","n","l","e","s","s"," ","S","t","e","e","l"," ","C","h","a","i","n"," ","B","r","a","c","e","l","e","t">>,
   body_html |-> <<>>, tags |-> <<"m","e","n","s",","," ","g","i","f","t">>, product_type |-> <<>>,
   admin_graphql_api_id |-> <<"g","i","d",":","/","/","s","h","o","p","i","f","y","/","P","r","o","d","u","c","t","/","9","0","0","2">>,
   variants |-> << Variant(<<"g","i","d",":","/","/","s","h","o","p","i","f","y","/","P","r","o","d","u","c","t","V","a","r","i","a","n","t","/","3","1","0","0","7">>, <<"D","e","f","a","u","l","t"," ","T","i","t","l","e">>, <<>>) >>]
EvSilverRing ==
  [title |-> <<"S","t","e","r","l","i","n","g"," ","S","i","l","v","e","r"," ","r","i","n","g"," ","|"," ","F","r","e","e"," ","G","i","f","t"," ","B","o","x">>,
   body_html |-> <<"<","p",">","V","i","n","t","a","g","e"," ","S","9","2","5"," ","b","a","n","d","<","/","p",">","<","i","m","g"," ","s","r","c","=","a",".","j","p","g",">">>,
   tags |-> <<"r","i","n","g","s",","," ",","," ","G","i","f","t">>, product_type |-> <<"R","i","n","g","s">>,
   admin_graphql_api_id |-> <<"g","i","d",":","/","/","s","h","o","p","i","f","y","/","P","r","o","d","u","c","t","/","9","0","0","3">>,
   variants |-> << Variant(<<>>, <<"D","e","f","a","u","l","t"," ","T","i","t","l","e">>, <<>>),
                   Variant(<<"g","i","d",":","/","/","s","h","o","p","i","f","y","/","P","r","o","d","u","c","t","V","a","r","i","a","n","t","/","5","2">>, <<"M">>, <<>>) >>]
EvPendant ==
  [title |-> <<"M","o","i","s","s","a","n","i","t","e"," ","P","e","n","d","a","n","t">>,
   body_html |-> <<"<","f","i","g","u","r","e",">","<","i","m","g"," ","s","r","c","=","b",".","p","n","g",">","<","/","f","i","g","u","r","e",">","<","p",">","S","t","e","r","l","i","n","g"," ","c","h","a","i","n"," ","4","5","c","m","<","/","p",">">>, tags |-> <<>>, product_type |-> <<>>,
   admin_graphql_api_id |-> <<"g","i","d",":","/","/","s","h","o","p","i","f","y","/","P","r","o","d","u","c","t","/","9","0","0","4">>,
   variants |-> << Variant(<<"g","i","d",":","/","/","s","h","o","p","i","f","y","/","P","r","o","d","u","c","t","V","a","r","i","a","n","t","/","7","7","7">>, <<"D","e","f","a","u","l","t"," ","T","i","t","l","e">>, <<>>),
                   Variant(<<"g","i","d",":","/","/","s","h","o","p","i","f","y","/","P","r","o","d","u","c","t","V","a","r","i","a","n","t","/","4","0","4","1">>, <<>>, <<"5","1","0","m","m">>) >>]
EvPhone ==
  [title |-> <<"i","P","h","o","n","e"," ","1","5"," ","C","a","s","e">>,
   body_html |-> <<>>, tags |-> <<>>, product_type |-> <<>>,
   admin_graphql_api_id |-> <<"g","i","d",":","/","/","s","h","o","p","i","f","y","/","P","r","o","d","u","c","t","/","9","0","0","5">>,
   variants |-> << Variant(<<"g","i","d",":","/","/","s","h","o","p","i","f","y","/","P","r","o","d","u","c","t","V","a","r","i","a","n","t","/","6","1">>, <<"D","e","f","a","u","l","t"," ","T","i","t","l","e">>, <<>>) >>]
\* Two payloads that carry no product identifier (admin_graphql_api_id absent).
EvNoId ==
  [title |-> <<"O","p","a","l"," ","B","e","a","d"," ","A","n","k","l","e","t">>,
   body_html |-> <<>>, tags |-> <<>>, product_type |-> <<>>,
   admin_graphql_api_id |-> <<>>,
   variants |-> << Variant(<<"g","i","d",":","/","/","s","h","o","p","i","f","y","/","P","r","o","d","u","c","t","V","a","r","i","a","n","t","/","8","8">>, <<"D","e","f","a","u","l","t"," ","T","i","t","l","e">>, <<>>) >>]
EvTabletNoId ==
  [title |-> <<"T","a","b","l","e","t"," ","S","t","a","n","d">>,
   body_html |-> <<>>, tags |-> <<>>, product_type |-> <<>>,
   admin_graphql_api_id |-> <<>>,
   variants |-> <<>>]
Events == <<EvMoissanite, EvSteel, EvSilverRing, EvPendant, EvPhone, EvNoId, EvTabletNoId>>

\* Raw extracted_price values of a competitor reply, in pence (0: a missing
\* or zero extracted_price).
RawPrices == {0, 300, 500, 6000, 36400, 90000}
RECURSIVE SeqsUpTo(_, _)
SeqsUpTo(S, n) ==
  IF n = 0 THEN {<<>>}
  ELSE LET shorter == SeqsUpTo(S, n - 1)
       IN  shorter \cup {Append(s, x) : s \in shorter, x \in S}
Samples == SeqsUpTo(RawPrices, MaxSample)

\* Custom collections the shop may hold, and the image alt texts a product
\* may start with (<<>> and blanks: no alt text).
CollectionSets == { {}, {"Necklaces"}, {"Necklaces", "Moissanite Jewelry"} }
ImageSets == { <<>>, << <<>> >>, << <<"F","r","o","n","t"," ","v","i","e","w">>, <<" ">> >> }

\* HTTP statuses and bodies of a failed REST reply.
FailStatuses == {404, 422, 500}
FailBodies == { <<"N","o","t"," ","F","o","u","n","d">>, <<"r","e","t","r","y"," ","i","d"," ","4","4","0","4">> }

\* ------------------------------------------------------------------ state
VARIABLES
  ev,           \* index in Events of the payload every delivery carries
  serpKey,      \* SERPAPI_KEY is configured
  collections,  \* titles of the custom collections the shop holds
  pSeo,         \* platform: the product's SEO <<title, description>>, <<>> unset
  pHtml,        \* platform: the product's body_html, <<>> unset
  pTags,        \* platform: the product's tags string, <<>> unset
  pPrice,       \* platform: price per variant index, 0 unset
  pMetafields,  \* platform: the metafield records created, in order
  pCollects,    \* platform: the collect (membership) records created, in order
  pAlt,         \* platform: alt text per image
  pc,           \* per delivery: the step the handler is at
  awaiting,     \* per delivery: the handler is suspended in an await
  pending,      \* per delivery: the calls issued and not yet answered
  log,          \* per delivery: the calls issued, in order, with their results
  resp,         \* per delivery: the status sent to the caller, 0 none yet
  attrs,        \* per delivery: the handler's inferred attributes and texts
  benchPrice,   \* per delivery: benchPrice, 0 for null
  idx,          \* per delivery: the loop position (variant, collection, image)
  images,       \* per delivery: data.product.images as setAltTextIfMissing read it
  calc,         \* the last function applied on its own: [op, arg, out]
  edits         \* what other writers did to the product's tags, in order

\* ------------------------------------------ inputs of the functions alone
\* Nothing has been applied yet.
NoCalc == [op |-> "none", arg |-> <<>>, out |-> 0]
\* The materials inferMaterial returns, the lengths around the ladder's steps and
\* the benchmark prices (0: none) the price decision is applied to.
Materials == {"s925+moissanite", "s925+plain", "steel+plain", "alloy+stone"}
LengthsMM == {0, 400, 457, 460, 461, 508, 510, 511, 559, 599}
Benchmarks == {0, 1099, 6699, 40099}
\* Raw competitor samples in pence: the short ones, and longer ones given whole.
BenchSamples ==
  Samples \cup { <<100, 5000, 6000, 7000, 500000>>, <<7000, 5000, 6000>>,
                 <<5000, 6000, 7000, 9000>>, <<300, 0, 90000>> }
\* Payloads the content functions are applied to, besides those delivered:
\* image markup in the title, a long title with untidy spaces, repeated tags.
EvImgTitle ==
  [title |-> <<"P","e","a","r","l"," ","R","i","n","g"," ","<","i","m","g"," ","s","r","c","=","x",".","p","n","g",">">>,
   body_html |-> <<"<","F","I","G","U","R","E",">","<","I","M","G"," ","S","R","C","=","c",".","g","i","f",">","<","/","F","I","G","U","R","E",">","<","p",">","F","r","e","s","h","w","a","t","e","r"," ","p","e","a","r","l","<","/","p",">">>,
   tags |-> <<>>, product_type |-> <<>>,
   admin_graphql_api_id |-> <<"g","i","d",":","/","/","s","h","o","p","i","f","y","/","P","r","o","d","u","c","t","/","9","1","0","0">>,
   variants |-> <<>>]
EvLongTitle ==
  [title |-> <<" "," ","V","i","n","t","a","g","e"," "," "," ","P","a","l","a","c","e"," ","M","e","d","a","l","l","i","o","n"," ","S","u","n","b","u","r","s","t"," ","F","l","o","w","e","r"," ","E","u","r","o","p","e","a","n"," ","I","t","a","l","i","a","n"," ","R","e","t","r","o"," ","M","o","i","s","s","a","n","i","t","e"," ","S","9","2","5"," ","S","t","e","r","l","i","n","g"," ","S","i","l","v","e","r"," ","T","e","n","n","i","s"," ","N","e","c","k","l","a","c","e"," ","f","o","r"," ","W","o","m","e","n"," ","a","n","d"," ","M","e","n"," "," ">>,
   body_html |-> <<>>,
   tags |-> <<>>, product_type |-> <<"N","e","c","k","l","a","c","e","s">>,
   admin_graphql_api_id |-> <<"g","i","d",":","/","/","s","h","o","p","i","f","y","/","P","r","o","d","u","c","t","/","9","1","0","0">>,
   variants |-> <<>>]
EvTagsTwice ==
  [title |-> <<"O","p","a","l"," ","r","i","n","g">>,
   body_html |-> <<>>,
   tags |-> <<"g","i","f","t",","," ","G","i","f","t",","," ","r","i","n","g","s",",","r","i","n","g","s"," ",","," ","v","i","n","t","a","g","e",","," ","g","i","f","t">>, product_type |-> <<>>,
   admin_graphql_api_id |-> <<"g","i","d",":","/","/","s","h","o","p","i","f","y","/","P","r","o","d","u","c","t","/","9","1","0","0">>,
   variants |-> <<>>]
ContentPayloads ==
  {EvMoissanite, EvSteel, EvSilverRing, EvPendant, EvNoId, EvImgTitle, EvLongTitle, EvTagsTwice}
\* Prices handed to updateVariantPrice, in pence: below, in and above the window.
PriceInputs == {-500, 0, 1, 698, 699, 749, 750, 2199, 32999, 49949, 49950, 49999, 50000, 1000000}
\* Texts inferMaterial is applied to.
MaterialTexts ==
  { <<>>,
    <<"M","o","i","s","s","a","n","i","t","e"," ","T","e","n","n","i","s"," ","N","e","c","k","l","a","c","e"," ","S","9","2","5">>,
    <<"m","o","i","s","s","a","n","i","t","e"," ","s","t","e","r","l","i","n","g"," ","c","h","a","i","n">>,
    <<"M","O","I","S","S","A","N","I","T","E"," ","r","i","n","g">>,
    <<"O","p","a","l"," ","S","9","2","5"," ","R","i","n","g">>,
    <<"A","m","e","t","h","y","s","t"," ","S","t","e","r","l","i","n","g"," ","S","i","l","v","e","r"," ","P","e","n","d","a","n","t">>,
    <<"s","t","e","r","l","i","n","g"," ","b","a","n","d">>,
    <<"S","t","a","i","n","l","e","s","s"," ","S","t","e","e","l"," ","C","u","f","f">>,
    <<"s","t","a","i","n","l","e","s","s"," ","m","o","i","s","s","a","n","i","t","e">>,
    <<"M","o","i","s","s","a","n","i","t","e","s"," ","S","9","2","5">>,
    <<"R","u","b","y"," ","X","S","9","2","5","0"," ","c","h","a","r","m">>,
    <<"G","o","l","d"," ","P","l","a","t","e","d"," ","C","r","y","s","t","a","l"," ","C","h","o","k","e","r">> }
\* The strings of a variant, <<title, option1, option3>>, length inference is applied to.
LengthStrings ==
  { <<<<>>, <<>>, <<>>>>,
    <<<<"1","8"," ","i","n","c","h">>, <<>>, <<>>>>,
    <<<<>>, <<"1","8"," ","i","n","c","h">>, <<>>>>,
    <<<<"1","8"," ","i","n","c","h">>, <<"4","5","0","m","m">>, <<>>>>,
    <<<<"4","5","c","m">>, <<>>, <<"2","0"," ","i","n","c","h">>>>,
    <<<<>>, <<"5","0"," ","c","m">>, <<"5","1","0"," ","m","m">>>>,
    <<<<"2","2","\"">>, <<>>, <<>>>>,
    <<<<"2","0","i","n">>, <<>>, <<>>>>,
    <<<<"6","0","0","m","m">>, <<"3","9","c","m">>, <<"2","3"," ","i","n","c","h">>>>,
    <<<<"D","e","f","a","u","l","t"," ","T","i","t","l","e">>, <<"M">>, <<>>>>,
    <<<<>>, <<>>, <<"5","9","9","M","M">>>>,
    <<<<"1","6"," ","i","n","c","h">>, <<>>, <<"4","0","c","m">>>>,
    <<<<"l","e","n","g","t","h"," ","4","5","5","m","m"," ","l","o","n","g">>, <<>>, <<>>>>,
    <<<<"x","4","5","0","m","m">>, <<"1","7"," ","i","n">>, <<>>>> }

platformVars == <<pSeo, pHtml, pTags, pPrice, pMetafields, pCollects, pAlt>>
configVars == <<ev, serpKey, collections, calc, edits>>
runVars == <<pc, awaiting, pending, log, resp, attrs, benchPrice, idx, images>>
vars == <<configVars, platformVars, runVars>>

Deliveries == 1..MaxRuns
Event == Events[ev]
NoAttrs == [material |-> "", stone |-> <<>>, type |-> <<>>, tags |-> <<>>,
            seoTitle |-> <<>>, seoDesc |-> <<>>]

Init ==
  /\ ev \in 1..Len(Events)
  /\ serpKey \in BOOLEAN
  /\ collections \in CollectionSets
  /\ pSeo = <<>> /\ pHtml = <<>> /\ pTags = <<>>
  /\ pPrice = [i \in 1..Len(Events[ev].variants) |-> 0]
  /\ pMetafields = <<>> /\ pCollects = <<>>
  /\ pAlt \in ImageSets
  /\ pc = [r \in Deliveries |-> "idle"]
  /\ awaiting = [r \in Deliveries |-> FALSE]
  /\ pending = [r \in Deliveries |-> {}]
  /\ log = [r \in Deliveries |-> <<>>]
  /\ resp = [r \in Deliveries |-> 0]
  /\ attrs = [r \in Deliveries |-> NoAttrs]
  /\ benchPrice = [r \in Deliveries |-> 0]
  /\ idx = [r \in Deliveries |-> 0]
  /\ images = [r \in Deliveries |-> <<>>]
  /\ calc = NoCalc
  /\ edits = <<>>

\* --------------------------------------------------- the handler's values
\* combined = `${title} ${p.product_type || ""} ${(p.tags || "")} ${desc}`
combinedOf(p) ==
  LET desc == clamp(StripTags(stripImages(p.body_html)), 1200)
  IN  p.title \o <<" ">> \o p.product_type \o <<" ">> \o p.tags \o <<" ">> \o desc

\* the attributes inferred at the start of the handler
inferAttrs(p) ==
  LET combined == combinedOf(p)
      material == inferMaterial(combined)
      stone    == inferStone(combined)
      type     == inferType(p.title, p.product_type, p.tags)
      tags     == uniqOf(currentTagsOf(p.tags) \o inferTagsRich(combined), <<>>)
      seo      == seoFrom(p.title, material, type, stone)
  IN  [material |-> material, stone |-> stone, type |-> type,
       tags |-> JoinComma(tags), seoTitle |-> seo[1], seoDesc |-> seo[2]]

\* mmOptions: the distinct lengths of the variants, for the details block
mmOptionsOf(p) ==
  uniqOf([i \in 1..Len(p.variants) |-> variantLengthMM(p.variants[i])], 0)

\* the description the handler writes
htmlOf(p, a) ==
  buildProductHTML(p.title, a.type, a.material, a.stone, mmOptionsOf(p))

\* the collections the handler tries, in order
collectionTitles(material) ==
  IF material = "s925+moissanite"
  THEN <<"Necklaces", "Moissanite Jewelry">> ELSE <<"Necklaces">>

\* the next variant after position i that carries an admin_graphql_api_id
\* (the others are skipped by continue); Len + 1 when there is none
nextVariant(p, i) ==
  MinOf({j \in (i + 1)..(Len(p.variants) + 1) :
           j = Len(p.variants) + 1 \/ p.variants[j].admin_graphql_api_id # <<>>})

\* an image loop that skips nothing
nextImageAny(imgs, i) == i + 1
\* the next image after position i with missing or blank alt text
nextImage(imgs, i) ==
  MinOf({j \in (i + 1)..(Len(imgs) + 1) :
           j = Len(imgs) + 1 \/ Trim(imgs[j]) = <<>>})

\* What the handler computes from the payload alone, worked out once for each
\* event of the model: the inferred attributes, the description, and the
\* length of each variant.
inferredOf == [e \in 1..Len(Events) |-> inferAttrs(Events[e])]
descriptionOf == [e \in 1..Len(Events) |-> htmlOf(Events[e], inferredOf[e])]
lengthOf ==
  [e \in 1..Len(Events) |->
     [v \in 1..Len(Events[e].variants) |-> variantLengthMM(Events[e].variants[v])]]

\* the price updateVariantPrice sends for the variant at the loop position
priceSent(r) ==
  sanitisePrice(decidePrice(attrs[r].material, lengthOf[ev][idx[r]], benchPrice[r]))

\* the message of the Error rest() throws: `${method} ${path} -> ${res.status} ${text}`
restErrorMessage(method, path, status, text) ==
  method \o <<" ">> \o path \o <<" ", "-", ">", " ">> \o NumText(status) \o <<" ">> \o text
variantPath(gid) ==
  <<"v","a","r","i","a","n","t","s","/">> \o NumText(idNumOf(gid)) \o <<".","j","s","o","n">>
\* a catch that never takes the failure for a not-found
looks404Never(gid, status, text) == FALSE
\* /404/.test(msg): the REST failure is taken for a not-found
looks404(gid, status, text) ==
  Includes(restErrorMessage(<<"P","U","T">>, variantPath(gid), status, text),
           <<"4","0","4">>)

\* the catch's test for each REST price failure the model lets a variant meet
looks404Of ==
  [e \in 1..Len(Events) |->
     [v \in 1..Len(Events[e].variants) |->
        [status \in FailStatuses |->
           [text \in FailBodies |->
              looks404(Events[e].variants[v].admin_graphql_api_id, status, text)]]]]

\* a handler that does not await the tags write
AwaitedButTags(step) == step # "tags"
\* every call of the handler is awaited before the next statement runs
Awaited(step) == TRUE

\* ------------------------------------------------------------ the handler
\* The steps at which the handler issues a call, named after the call.
CallSteps == {"competitor", "seo", "description", "tags", "price_rest", "price_gql",
              "metafield", "collection_lookup", "collection_add", "image_list",
              "image_alt"}
\* The calls that go to the platform gateway (all but the competitor lookup).
GatewaySteps == CallSteps \ {"competitor"}

Goto(r, step, i) ==
  /\ pc' = [pc EXCEPT ![r] = step]
  /\ idx' = [idx EXCEPT ![r] = i]
  /\ resp' = resp
\* a response after which the handler keeps running
FinishAndCarryOn(r, code) ==
  /\ pc' = pc
  /\ idx' = idx
  /\ resp' = [resp EXCEPT ![r] = code]
\* res.sendStatus(code): the handler is over
Finish(r, code) ==
  /\ pc' = [pc EXCEPT ![r] = "done"]
  /\ idx' = idx
  /\ resp' = [resp EXCEPT ![r] = code]

\* the call the handler is suspended on is answered
Answering(r, step) ==
  /\ pc[r] = step
  /\ awaiting[r]
  /\ Len(log[r]) \in pending[r]
Settle(r, result, status) ==
  /\ awaiting' = [awaiting EXCEPT ![r] = FALSE]
  /\ pending' = [pending EXCEPT ![r] = @ \ {Len(log[r])}]
  /\ log' = [log EXCEPT ![r][Len(log[r])] =
               [@ EXCEPT !.result = result, !.status = status]]

\* The webhook arrives: the skip test and the attribute inference, up to the
\* first await.  Deliveries are handled one after the other.
Receive(r) ==
  /\ pc[r] = "idle"
  /\ IF r = 1 THEN TRUE ELSE pc[r - 1] = "done"
  /\ IF ELECTRONICS_WORDS(Event.title)
     THEN Finish(r, 200) /\ attrs' = attrs
     ELSE /\ attrs' = [attrs EXCEPT ![r] = inferredOf[ev]]
          /\ Goto(r, IF serpKey THEN "competitor" ELSE "seo", 0)
  /\ UNCHANGED <<configVars, platformVars, awaiting, pending, log, benchPrice, images>>

\* The handler issues the call of its current step.
Issue(r) ==
  /\ pc[r] \in CallSteps
  /\ ~awaiting[r]
  /\ log' = [log EXCEPT ![r] = Append(@,
       [kind   |-> pc[r],
        target |-> idx[r],
        price  |-> IF pc[r] \in {"price_rest", "price_gql"} THEN priceSent(r) ELSE 0,
        result |-> "pending",
        status |-> 0])]
  /\ pending' = [pending EXCEPT ![r] = @ \cup {Len(log[r]) + 1}]
  /\ awaiting' = [awaiting EXCEPT ![r] = Awaited(pc[r])]
  /\ UNCHANGED <<configVars, platformVars, pc, resp, attrs, benchPrice, idx, images>>

\* fetchCompetitorPrices returns: the reply's prices are filtered and picked.
CompetitorReply(r, raw) ==
  /\ Answering(r, "competitor")
  /\ Settle(r, "ok", 200)
  /\ benchPrice' = [benchPrice EXCEPT ![r] = pickPriceFromCompetitors(FilterSane(raw))]
  /\ Goto(r, "seo", 0)
  /\ UNCHANGED <<configVars, platformVars, attrs, images>>
\* fetch rejects or the reply is not JSON: the exception reaches the catch.
CompetitorThrows(r) ==
  /\ Answering(r, "competitor")
  /\ Settle(r, "throw", 0)
  /\ Finish(r, 500)
  /\ UNCHANGED <<configVars, platformVars, attrs, benchPrice, images>>

\* updateProductSEO: the mutation is accepted.
SeoOk(r) ==
  /\ Answering(r, "seo")
  /\ Settle(r, "ok", 200)
  /\ pSeo' = <<attrs[r].seoTitle, attrs[r].seoDesc>>
  /\ Goto(r, "description", 0)
  /\ UNCHANGED <<configVars, pHtml, pTags, pPrice, pMetafields, pCollects, pAlt,
                 attrs, benchPrice, images>>
\* an updateProductSEO that throws on errors or userErrors
SeoUserErrorsThrow(r) ==
  /\ Answering(r, "seo")
  /\ Settle(r, "errors", 200)
  /\ Finish(r, 500)
  /\ UNCHANGED <<configVars, platformVars, attrs, benchPrice, images>>
\* updateProductSEO: errors or userErrors come back; they are logged only.
SeoUserErrors(r) ==
  /\ Answering(r, "seo")
  /\ Settle(r, "errors", 200)
  /\ Goto(r, "description", 0)
  /\ UNCHANGED <<configVars, platformVars, attrs, benchPrice, images>>
\* updateProductSEO: fetch rejects or the reply is not JSON.
SeoThrows(r) ==
  /\ Answering(r, "seo")
  /\ Settle(r, "throw", 0)
  /\ Finish(r, 500)
  /\ UNCHANGED <<configVars, platformVars, attrs, benchPrice, images>>

\* where the variant loop goes from position i
AfterVariant(r, i) ==
  LET j == nextVariant(Event, i)
  IN  IF j <= Len(Event.variants) THEN Goto(r, "price_rest", j)
      ELSE Goto(r, "metafield", 0)
\* where the collection steps go after the collection at position i
AfterCollection(r, i) ==
  IF i < Len(collectionTitles(attrs[r].material))
  THEN Goto(r, "collection_lookup", i + 1)
  ELSE Goto(r, "image_list", 0)
\* where the image loop goes from position i of the images read
AfterImage(r, imgs, i) ==
  LET j == nextImage(imgs, i)
  IN  IF j <= Len(imgs) THEN Goto(r, "image_alt", j) ELSE Finish(r, 200)

\* PUT products/{id}.json with body_html succeeds.
DescriptionOk(r) ==
  /\ Answering(r, "description")
  /\ Settle(r, "ok", 200)
  /\ pHtml' = descriptionOf[ev]
  /\ Goto(r, "tags", 0)
  /\ UNCHANGED <<configVars, pSeo, pTags, pPrice, pMetafields, pCollects, pAlt,
                 attrs, benchPrice, images>>
\* a tags write that merges into the tags the platform holds
TagsOkMerging(r) ==
  /\ Answering(r, "tags")
  /\ Settle(r, "ok", 200)
  /\ pTags' = IF pTags = <<>> THEN attrs[r].tags
              ELSE pTags \o <<",", " ">> \o attrs[r].tags
  /\ AfterVariant(r, 0)
  /\ UNCHANGED <<configVars, pSeo, pHtml, pPrice, pMetafields, pCollects, pAlt,
                 attrs, benchPrice, images>>
\* a tags write that reads the product's tags back and keeps them
TagsOkKeepingPlatformTags(r) ==
  /\ Answering(r, "tags")
  /\ Settle(r, "ok", 200)
  /\ pTags' = JoinComma(uniqOf(currentTagsOf(pTags) \o currentTagsOf(attrs[r].tags), <<>>))
  /\ AfterVariant(r, 0)
  /\ UNCHANGED <<configVars, pSeo, pHtml, pPrice, pMetafields, pCollects, pAlt,
                 attrs, benchPrice, images>>
\* PUT products/{id}.json with tags succeeds.
TagsOk(r) ==
  /\ Answering(r, "tags")
  /\ Settle(r, "ok", 200)
  /\ pTags' = attrs[r].tags
  /\ AfterVariant(r, 0)
  /\ UNCHANGED <<configVars, pSeo, pHtml, pPrice, pMetafields, pCollects, pAlt,
                 attrs, benchPrice, images>>

\* an updateVariantPrice that tries the REST write again when it fails
PriceRestFailsTriesAgain(r, status, text) ==
  /\ Answering(r, "price_rest")
  /\ Settle(r, "http", status)
  /\ IF looks404Of[ev][idx[r]][status][text]
     THEN Goto(r, "price_gql", idx[r])
     ELSE Goto(r, "price_rest", idx[r])
  /\ UNCHANGED <<configVars, platformVars, attrs, benchPrice, images>>
\* updateVariantPrice: the REST PUT succeeds.
PriceRestOk(r) ==
  /\ Answering(r, "price_rest")
  /\ Settle(r, "ok", 200)
  /\ pPrice' = [pPrice EXCEPT ![idx[r]] = log[r][Len(log[r])].price]
  /\ AfterVariant(r, idx[r])
  /\ UNCHANGED <<configVars, pSeo, pHtml, pTags, pMetafields, pCollects, pAlt,
                 attrs, benchPrice, images>>
\* updateVariantPrice: the REST PUT fails with a status and a body; the
\* message of the error decides between the fallback and the rethrow.
PriceRestFails(r, status, text) ==
  /\ Answering(r, "price_rest")
  /\ Settle(r, "http", status)
  /\ IF looks404Of[ev][idx[r]][status][text]
     THEN Goto(r, "price_gql", idx[r])
     ELSE Finish(r, 500)
  /\ UNCHANGED <<configVars, platformVars, attrs, benchPrice, images>>
\* updateVariantPrice: the GraphQL productVariantUpdate is accepted.
PriceGqlOk(r) ==
  /\ Answering(r, "price_gql")
  /\ Settle(r, "ok", 200)
  /\ pPrice' = [pPrice EXCEPT ![idx[r]] = log[r][Len(log[r])].price]
  /\ AfterVariant(r, idx[r])
  /\ UNCHANGED <<configVars, pSeo, pHtml, pTags, pMetafields, pCollects, pAlt,
                 attrs, benchPrice, images>>
\* a variant loop that catches the failure of the fallback and goes on
PriceGqlFailsContinues(r) ==
  /\ Answering(r, "price_gql")
  /\ Settle(r, "errors", 200)
  /\ AfterVariant(r, idx[r])
  /\ UNCHANGED <<configVars, platformVars, attrs, benchPrice, images>>
\* updateVariantPrice: the GraphQL reply carries errors, or fetch rejects.
PriceGqlFails(r) ==
  /\ Answering(r, "price_gql")
  /\ Settle(r, "errors", 200)
  /\ Finish(r, 500)
  /\ UNCHANGED <<configVars, platformVars, attrs, benchPrice, images>>

\* setMaterialMetafield: POST metafields.json creates a record.
MetafieldOk(r) ==
  /\ Answering(r, "metafield")
  /\ Settle(r, "ok", 200)
  /\ pMetafields' = Append(pMetafields,
        [namespace |-> "dtp", key |-> "material", value |-> attrs[r].material])
  /\ Goto(r, "collection_lookup", 1)
  /\ UNCHANGED <<configVars, pSeo, pHtml, pTags, pPrice, pCollects, pAlt,
                 attrs, benchPrice, images>>
\* an addToCollectionIfExists that adds whatever the lookup found
CollectionLookupOkAddsAnyway(r) ==
  /\ Answering(r, "collection_lookup")
  /\ Settle(r, "ok", 200)
  /\ Goto(r, "collection_add", idx[r])
  /\ UNCHANGED <<configVars, platformVars, attrs, benchPrice, images>>
\* addToCollectionIfExists: the lookup by title answers.
CollectionLookupOk(r) ==
  /\ Answering(r, "collection_lookup")
  /\ Settle(r, "ok", 200)
  /\ IF collectionTitles(attrs[r].material)[idx[r]] \in collections
     THEN Goto(r, "collection_add", idx[r])
     ELSE AfterCollection(r, idx[r])
  /\ UNCHANGED <<configVars, platformVars, attrs, benchPrice, images>>
\* addToCollectionIfExists: POST collects.json creates a membership record.
CollectionAddOk(r) ==
  /\ Answering(r, "collection_add")
  /\ Settle(r, "ok", 200)
  /\ pCollects' = Append(pCollects, collectionTitles(attrs[r].material)[idx[r]])
  /\ AfterCollection(r, idx[r])
  /\ UNCHANGED <<configVars, pSeo, pHtml, pTags, pPrice, pMetafields, pAlt,
                 attrs, benchPrice, images>>
\* setAltTextIfMissing: GET products/{id}.json returns the images.
ImageListOk(r) ==
  /\ Answering(r, "image_list")
  /\ Settle(r, "ok", 200)
  /\ images' = [images EXCEPT ![r] = pAlt]
  /\ AfterImage(r, pAlt, 0)
  /\ UNCHANGED <<configVars, platformVars, attrs, benchPrice>>
\* setAltTextIfMissing: PUT of one image's alt text succeeds.
ImageAltOk(r) ==
  /\ Answering(r, "image_alt")
  /\ Settle(r, "ok", 200)
  /\ pAlt' = [pAlt EXCEPT ![idx[r]] =
                attrs[r].seoTitle \o <<" ","b","y"," ","D","T","P"," ","J","e","w","e","l","r","y">>]
  /\ AfterImage(r, images[r], idx[r])
  /\ UNCHANGED <<configVars, pSeo, pHtml, pTags, pPrice, pMetafields, pCollects,
                 attrs, benchPrice, images>>

\* a catch that answers 200 whatever was thrown
RestThrowsAnswers200(r) ==
  /\ pc[r] \in {"description", "tags", "metafield", "collection_lookup",
                "collection_add", "image_list", "image_alt"}
  /\ Answering(r, pc[r])
  /\ Settle(r, "throw", 0)
  /\ Finish(r, 200)
  /\ UNCHANGED <<configVars, platformVars, attrs, benchPrice, images>>
\* rest() throws in a step other than the variant price: the exception
\* reaches the handler's catch.
RestThrowSteps == {"description", "tags", "metafield", "collection_lookup",
                   "collection_add", "image_list", "image_alt"}
RestThrows(r) ==
  /\ pc[r] \in RestThrowSteps
  /\ Answering(r, pc[r])
  /\ Settle(r, "throw", 0)
  /\ Finish(r, 500)
  /\ UNCHANGED <<configVars, platformVars, attrs, benchPrice, images>>

\* --------------------------------------------------------- specifications
\* One delivery, every call free to succeed or fail.
Next ==
  \E r \in {1} :
     \/ Receive(r)
     \/ Issue(r)
     \/ \E raw \in Samples : CompetitorReply(r, raw)
     \/ CompetitorThrows(r)
     \/ SeoOk(r)
     \/ SeoUserErrors(r)
     \/ SeoThrows(r)
     \/ DescriptionOk(r)
     \/ TagsOk(r)
     \/ PriceRestOk(r)
     \/ \E status \in FailStatuses, text \in FailBodies : PriceRestFails(r, status, text)
     \/ PriceGqlOk(r)
     \/ PriceGqlFails(r)
     \/ MetafieldOk(r)
     \/ CollectionLookupOk(r)
     \/ CollectionAddOk(r)
     \/ ImageListOk(r)
     \/ ImageAltOk(r)
     \/ RestThrows(r)
Spec == Init /\ [][Next]_vars
\* The same, with every request delivered, every call answered (accepted or
\* failed) and the handler resumed after each answer.
SpecFair == Spec /\ WF_vars(Next)

\* The same event delivered MaxRuns times, one run after the other, to a
\* gateway that accepts every write and echoes the state it holds.
NextRedelivery ==
  \E r \in Deliveries :
     \/ Receive(r)
     \/ Issue(r)
     \/ \E raw \in Samples : CompetitorReply(r, raw)
     \/ SeoOk(r)
     \/ DescriptionOk(r)
     \/ TagsOk(r)
     \/ PriceRestOk(r)
     \/ MetafieldOk(r)
     \/ CollectionLookupOk(r)
     \/ CollectionAddOk(r)
     \/ ImageListOk(r)
     \/ ImageAltOk(r)
SpecRedelivery == Init /\ [][NextRedelivery]_vars

\* The tags another writer (the merchant, another app) gives the product.
OtherTags == { <<"s","a","l","e">>,
               <<"c","l","e","a","r","a","n","c","e",","," ","g","i","f","t">> }
\* Another writer sets the product's tags on the platform; the handler is not
\* told and does not read them (its tags come from p.tags of the payload).
OtherWriterSetsTags(text) ==
  /\ Len(edits) < MaxEdits
  /\ pTags' = text
  /\ edits' = Append(edits, [tags |-> text, during |-> pc[1]])
  /\ UNCHANGED <<ev, serpKey, collections, calc, pSeo, pHtml, pPrice, pMetafields,
                 pCollects, pAlt, runVars>>
\* One delivery to a gateway that accepts every write, while another writer
\* edits the tags of the same product.
NextOtherWriter ==
  \/ \E r \in {1} :
        \/ Receive(r)
        \/ Issue(r)
        \/ \E raw \in Samples : CompetitorReply(r, raw)
        \/ SeoOk(r)
        \/ DescriptionOk(r)
        \/ TagsOk(r)
        \/ PriceRestOk(r)
        \/ MetafieldOk(r)
        \/ CollectionLookupOk(r)
        \/ CollectionAddOk(r)
        \/ ImageListOk(r)
        \/ ImageAltOk(r)
  \/ \E text \in OtherTags : OtherWriterSetsTags(text)
SpecOtherWriter == Init /\ [][NextOtherWriter]_vars

\* The webhook arrives while other deliveries may still be running: each
\* request gets its own invocation of the async handler, and an invocation
\* gives way to the others at every await.  Deliveries are numbered in the
\* order of their arrival.
ReceiveConcurrently(r) ==
  /\ pc[r] = "idle"
  /\ \A q \in 1..(r - 1) : pc[q] # "idle"
  /\ IF ELECTRONICS_WORDS(Event.title)
     THEN Finish(r, 200) /\ attrs' = attrs
     ELSE /\ attrs' = [attrs EXCEPT ![r] = inferredOf[ev]]
          /\ Goto(r, IF serpKey THEN "competitor" ELSE "seo", 0)
  /\ UNCHANGED <<configVars, platformVars, awaiting, pending, log, benchPrice, images>>
\* The same event delivered MaxRuns times, the runs interleaved at their
\* awaits in any order, to a gateway that accepts every write.
NextConcurrent ==
  \E r \in Deliveries :
     \/ ReceiveConcurrently(r)
     \/ Issue(r)
     \/ \E raw \in Samples : CompetitorReply(r, raw)
     \/ SeoOk(r)
     \/ DescriptionOk(r)
     \/ TagsOk(r)
     \/ PriceRestOk(r)
     \/ MetafieldOk(r)
     \/ CollectionLookupOk(r)
     \/ CollectionAddOk(r)
     \/ ImageListOk(r)
     \/ ImageAltOk(r)
SpecConcurrent == Init /\ [][NextConcurrent]_vars

\* The pure functions applied on their own, the handler idle.
InitFunctions ==
  /\ ev = 1 /\ serpKey = FALSE /\ collections = {}
  /\ pSeo = <<>> /\ pHtml = <<>> /\ pTags = <<>>
  /\ pPrice = [i \in 1..Len(Events[1].variants) |-> 0]
  /\ pMetafields = <<>> /\ pCollects = <<>> /\ pAlt = <<>>
  /\ pc = [r \in Deliveries |-> "idle"]
  /\ awaiting = [r \in Deliveries |-> FALSE]
  /\ pending = [r \in Deliveries |-> {}]
  /\ log = [r \in Deliveries |-> <<>>]
  /\ resp = [r \in Deliveries |-> 0]
  /\ attrs = [r \in Deliveries |-> NoAttrs]
  /\ benchPrice = [r \in Deliveries |-> 0]
  /\ idx = [r \in Deliveries |-> 0]
  /\ images = [r \in Deliveries |-> <<>>]
  /\ calc = NoCalc
  /\ edits = <<>>
\* what applying a function leaves alone
handlerVars == <<ev, serpKey, collections, edits, platformVars, runVars>>
\* the price decision of the variant loop
DecidePriceCall(material, mm, bench) ==
  /\ calc' = [op |-> "decidePrice", arg |-> <<material, mm, bench>>,
              out |-> decidePrice(material, mm, bench)]
  /\ UNCHANGED handlerVars
\* the filter of fetchCompetitorPrices, then pickPriceFromCompetitors
BenchmarkCall(raw) ==
  /\ calc' = [op |-> "benchmark", arg |-> raw,
              out |-> pickPriceFromCompetitors(FilterSane(raw))]
  /\ UNCHANGED handlerVars
InferMaterialCall(text) ==
  /\ calc' = [op |-> "inferMaterial", arg |-> text, out |-> inferMaterial(text)]
  /\ UNCHANGED handlerVars
\* the strings of a variant as the payload carries them
VariantOf(t) ==
  [admin_graphql_api_id |-> <<>>, title |-> t[1], option1 |-> t[2],
   option2 |-> <<>>, option3 |-> t[3]]
\* the length of a variant, from its title and options
VariantLengthCall(t) ==
  /\ calc' = [op |-> "variantLengthMM", arg |-> t, out |-> variantLengthMM(VariantOf(t))]
  /\ UNCHANGED handlerVars
\* what the handler infers and builds for each of the payloads
contentOf ==
  [p \in ContentPayloads |->
     [attrs |-> inferAttrs(p), html |-> htmlOf(p, inferAttrs(p))]]
\* the description the handler builds for a payload
DescriptionCall(p) ==
  /\ calc' = [op |-> "description", arg |-> p, out |-> contentOf[p].html]
  /\ UNCHANGED handlerVars
\* the SEO title and description the handler builds for a payload
SeoCall(p) ==
  /\ calc' = [op |-> "seo", arg |-> p,
              out |-> <<contentOf[p].attrs.seoTitle, contentOf[p].attrs.seoDesc>>]
  /\ UNCHANGED handlerVars
\* the tags string the handler builds for a payload
TagsCall(p) ==
  /\ calc' = [op |-> "tags", arg |-> p, out |-> contentOf[p].attrs.tags]
  /\ UNCHANGED handlerVars
\* the sanitising of updateVariantPrice
SanitisePriceCall(price) ==
  /\ calc' = [op |-> "sanitisePrice", arg |-> price, out |-> sanitisePrice(price)]
  /\ UNCHANGED handlerVars
NextFunctions ==
  \/ \E material \in Materials, mm \in LengthsMM, bench \in Benchmarks :
       DecidePriceCall(material, mm, bench)
  \/ \E raw \in BenchSamples : BenchmarkCall(raw)
  \/ \E text \in MaterialTexts : InferMaterialCall(text)
  \/ \E t \in LengthStrings : VariantLengthCall(t)
  \/ \E p \in ContentPayloads : DescriptionCall(p)
  \/ \E p \in ContentPayloads : SeoCall(p)
  \/ \E p \in ContentPayloads : TagsCall(p)
  \/ \E price \in PriceInputs : SanitisePriceCall(price)
SpecFunctions == InitFunctions /\ [][NextFunctions]_vars

\* ------------------------------------------------------------- properties
LogIdx(r) == 1..Len(log[r])
IsPrice(e) == e.kind \in {"price_rest", "price_gql"}
\* the GraphQL price calls issued for the variant at position v
GqlCalls(r, v) ==
  {i \in LogIdx(r) : log[r][i].kind = "price_gql" /\ log[r][i].target = v}
\* the call at i is followed by the GraphQL fallback (issued or about to be)
FallbackFollows(r, i) ==
  IF i = Len(log[r]) THEN pc[r] = "price_gql" ELSE log[r][i + 1].kind = "price_gql"
\* the price write of a variant has failed for good
TerminalPriceFailure(r, i) ==
  \/ log[r][i].kind = "price_gql" /\ log[r][i].result = "errors"
  \/ log[r][i].kind = "price_rest" /\ log[r][i].result = "http" /\ ~FallbackFollows(r, i)
\* the run ended with the call at i: nothing was issued after it, the caller got 500
RunFailedAt(r, i) == i = Len(log[r]) /\ pc[r] = "done" /\ resp[r] = 500

\* C1: a REST price write that fails with HTTP 404 is followed by exactly one
\* GraphQL productVariantUpdate call for that variant (about to be issued, or the
\* very next call), and a variant whose REST write succeeded gets no GraphQL call.
C1_NotFoundFallsBackOnce ==
  \A r \in Deliveries : \A i \in LogIdx(r) :
    LET e == log[r][i] IN
    e.kind = "price_rest" =>
      /\ (e.result = "http" /\ e.status = 404) =>
           /\ Cardinality(GqlCalls(r, e.target)) <= 1
           /\ \/ i = Len(log[r]) /\ pc[r] = "price_gql" /\ GqlCalls(r, e.target) = {}
              \/ GqlCalls(r, e.target) = {i + 1}
      /\ e.result = "ok" => GqlCalls(r, e.target) = {}
\* one variant written over REST, another answered 404 and written over GraphQL
C1_Witness ==
  \E r \in Deliveries : \E i, j \in LogIdx(r) :
    /\ log[r][i].kind = "price_rest" /\ log[r][i].result = "http"
    /\ log[r][i].status = 404
    /\ GqlCalls(r, log[r][i].target) = {i + 1} /\ log[r][i + 1].result = "ok"
    /\ log[r][j].kind = "price_rest" /\ log[r][j].result = "ok"
    /\ log[r][j].target # log[r][i].target

\* C2: a REST price write that fails with a status other than 404 is terminal:
\* no GraphQL fallback call follows it for that variant.
C2_OtherFailureIsTerminal ==
  \A r \in Deliveries : \A i \in LogIdx(r) :
    LET e == log[r][i] IN
    (e.kind = "price_rest" /\ e.result = "http" /\ e.status # 404) =>
      /\ GqlCalls(r, e.target) = {}
      /\ ~FallbackFollows(r, i)

C4_SuccessOnlyIfSeoSucceeded ==
  \A r \in Deliveries : \A i \in LogIdx(r) :
    (log[r][i].kind = "seo" /\ resp[r] = 200) => log[r][i].result = "ok"

\* the write steps whose failure the handler does not catch itself
BestEffortSteps == {"description", "tags", "metafield", "collection_lookup",
                    "collection_add", "image_list", "image_alt"}
\* the call at i failed
Failed(r, i) == log[r][i].result \in {"throw", "http", "errors"}

Rank(kind) ==
  CASE kind = "competitor" -> 0
    [] kind = "seo" -> 1
    [] kind = "description" -> 2
    [] kind = "tags" -> 3
    [] kind \in {"price_rest", "price_gql"} -> 4
    [] kind = "metafield" -> 5
    [] kind \in {"collection_lookup", "collection_add"} -> 6
    [] kind \in {"image_list", "image_alt"} -> 7

\* C7: within a run at most one call is outstanding, a call is answered before
\* the next is issued, and the calls are issued in the order SEO, description,
\* tags, variant prices (in variant order), metafield, collections, image alt
\* texts, none of the earlier steps being left out.
C7_CallsSequentialAndOrdered ==
  \A r \in Deliveries :
    /\ Cardinality(pending[r]) <= 1
    /\ \A i \in LogIdx(r) : i < Len(log[r]) => log[r][i].result # "pending"
    /\ \A i, j \in LogIdx(r) : i < j =>
         /\ Rank(log[r][i].kind) <= Rank(log[r][j].kind)
         /\ Rank(log[r][i].kind) = Rank(log[r][j].kind) =>
              log[r][i].target <= log[r][j].target
    /\ \A j \in LogIdx(r) : \A k \in 1..(Rank(log[r][j].kind) - 1) :
         \E i \in 1..(j - 1) : Rank(log[r][i].kind) = k
\* a finished run that went through every kind of step, two variants priced
C7_Witness ==
  \E r \in Deliveries :
    /\ resp[r] = 200
    /\ {"seo", "description", "tags", "price_rest", "metafield",
        "collection_lookup", "collection_add", "image_list", "image_alt"}
         \subseteq {log[r][i].kind : i \in LogIdx(r)}
    /\ \E i, j \in LogIdx(r) :
         IsPrice(log[r][i]) /\ IsPrice(log[r][j]) /\ log[r][i].target < log[r][j].target

\* a value the platform holds is not changed by the step taken
KeepsSeo == pSeo # <<>> => pSeo' = pSeo
KeepsDescription == pHtml # <<>> => pHtml' = pHtml
KeepsTags == pTags # <<>> => pTags' = pTags
KeepsPrices == \A v \in DOMAIN pPrice : pPrice[v] # 0 => pPrice'[v] = pPrice[v]
\* the delivery r has picked the benchmark price of every delivery before it
SameBenchmarkSoFar(r) == \A q \in 1..r : benchPrice[q] = benchPrice[r]

\* C8 (as amended): a later run on the same payload writes the SEO title and
\* description, the description HTML and the tags the platform already holds;
\* it writes the price a variant already has provided its competitor lookup
\* gave the benchmark price of the runs before it (always so when no lookup
\* is configured).
C8_RerunWritesSameGivenSameBenchmark ==
  [][ /\ KeepsSeo
      /\ KeepsDescription
      /\ KeepsTags
      /\ \A r \in Deliveries :
           (pc[r] = "price_rest" /\ SameBenchmarkSoFar(r)) => KeepsPrices ]_vars
\* two runs done with the same benchmark price from the lookup, the second
\* having written a benchmark-derived price again
C8_Witness ==
  /\ Cardinality({r \in Deliveries : resp[r] = 200 /\ log[r] # <<>>}) >= 2
  /\ \E r \in Deliveries \ {1} :
       /\ benchPrice[r] # 0
       /\ SameBenchmarkSoFar(r)
       /\ \E i \in LogIdx(r) :
            /\ log[r][i].kind = "price_rest" /\ log[r][i].result = "ok"
            /\ log[r][i].price = sanitisePrice(benchPrice[r])
\* C8 (as stated): the second run writes the same SEO fields, description, tags
\* and price per variant as the first.
C8_RerunWritesSame ==
  [][KeepsSeo /\ KeepsDescription /\ KeepsTags /\ KeepsPrices]_vars

\* C9: runs of the same event leave no duplicates: one 'material' metafield at
\* most, and one membership record per collection at most.
C9_NoDuplicateRecords ==
  /\ Len(pMetafields) <= 1
  /\ \A i, j \in 1..Len(pCollects) : pCollects[i] = pCollects[j] => i = j

\* C10: every price sent for a variant, over REST or over GraphQL, ends in .99
\* and lies in [6.99, 499.99] (in pence: 699..49999).
C10_PricesEndIn99WithinWindow ==
  \A r \in Deliveries : \A i \in LogIdx(r) :
    IsPrice(log[r][i]) =>
      /\ log[r][i].price % 100 = 99
      /\ log[r][i].price >= 699
      /\ log[r][i].price <= 49999
\* benchmark-derived prices sent on both paths, from a sample that hits the
\* upper clamp of the benchmark and from one that hits the lower
C10_Witness ==
  \E r \in Deliveries : \E i, j \in LogIdx(r) :
    /\ log[r][i].kind = "price_rest" /\ log[r][j].kind = "price_gql"
    /\ benchPrice[r] \in {1099, 40099}
    /\ log[r][j].price = sanitisePrice(benchPrice[r])

\* the price the variant loop decided for the variant of the call at i
decidedFor(r, i) ==
  decidePrice(attrs[r].material,
              variantLengthMM(Event.variants[log[r][i].target]),
              benchPrice[r])

\* C11: the rounding is applied once: the price sent for a variant is the price
\* decided for it (ladder tier, benchmark or fallback value), not rounded again.
C11_SentPriceIsDecidedPrice ==
  \A r \in Deliveries : \A i \in LogIdx(r) :
    IsPrice(log[r][i]) => log[r][i].price = decidedFor(r, i)

\* C12: the price decision follows a fixed precedence: for s925+moissanite with
\* a known length the ladder (<= 460mm tier A, <= 510mm tier B, else tier C,
\* A < B < C) even when a benchmark is available; else the benchmark when there
\* is one; else the fallback price of the material.
C12_PricePrecedence ==
  calc.op = "decidePrice" =>
    LET material == calc.arg[1]
        mm       == calc.arg[2]
        bench    == calc.arg[3]
        tierA    == ladderPriceForMoissanite(460)
        tierB    == ladderPriceForMoissanite(510)
        tierC    == ladderPriceForMoissanite(511)
    IN  /\ tierA < tierB /\ tierB < tierC
        /\ IF material = "s925+moissanite" /\ mm # 0
           THEN calc.out = (IF mm <= 460 THEN tierA ELSE IF mm <= 510 THEN tierB ELSE tierC)
           ELSE IF bench # 0 THEN calc.out = bench
           ELSE calc.out = fallbackPrice(material)
\* a moissanite variant longer than 510mm priced at the top tier although a
\* benchmark is available
C12_Witness ==
  /\ calc.op = "decidePrice"
  /\ calc.arg = <<"s925+moissanite", 511, 40099>>
  /\ calc.out = ladderPriceForMoissanite(511)
  /\ calc.out # 40099

\* the benchmark as stated: the values within the bounds, their statistical
\* median (for an even count the mean of the two middle values), times 1.10,
\* rounded to the pound, plus 0.99; 0 when nothing is left
statedBenchmark(raw) ==
  LET kept == SortAsc(SelectSeq(raw, LAMBDA x : x # 0 /\ x > 400 /\ x < 80000))
      n    == Len(kept)
      \* twice the median, in pence
      med2 == IF n % 2 = 1 THEN 2 * kept[(n + 1) \div 2]
              ELSE kept[n \div 2] + kept[(n \div 2) + 1]
  IN  IF n = 0 THEN 0
      ELSE (((med2 * 11) + 1000) \div 2000) * 100 + 99

\* the clamp of pickPriceFromCompetitors to [9.99, 399.99] changes nothing for
\* this sample: every value kept, times 1.10, lies within it
clampIdle(raw) ==
  \A k \in 1..Len(FilterSane(raw)) :
    FilterSane(raw)[k] * 11 >= 9990 /\ FilterSane(raw)[k] * 11 <= 399990

\* C13: the benchmark of a raw sample is the statistical median of the values
\* within the filter bounds (for an even count the mean of the two middle
\* values), times 1.10, with the .99 rounding; none for an empty filtered
\* sample; [1, 50, 60, 70, 5000] gives 66.99.  Stated for the samples whose
\* values the clamp to the retail window leaves alone.
C13_BenchmarkIsStatisticalMedian ==
  (calc.op = "benchmark" /\ clampIdle(calc.arg)) => calc.out = statedBenchmark(calc.arg)

\* C14: a competitor lookup that errors (the request fails or the reply does not
\* parse) or gives no usable sample counts as no benchmark: the SEO write is the
\* next call, and the run is not answered 500 unless some other call failed.
C14_LookupFailureIsNoBenchmark ==
  \A r \in Deliveries : \A i \in LogIdx(r) :
    (log[r][i].kind = "competitor" /\ log[r][i].result \in {"throw", "ok"}
       /\ benchPrice[r] = 0) =>
      /\ IF i = Len(log[r]) THEN pc[r] = "seo" ELSE log[r][i + 1].kind = "seo"
      /\ resp[r] = 500 => \E j \in LogIdx(r) : j # i /\ Failed(r, j)

\* the alt-text writes issued for the image at position t
AltCalls(r, t) ==
  {i \in LogIdx(r) : log[r][i].kind = "image_alt" /\ log[r][i].target = t}
\* altBase: `${seoTitle} by DTP Jewelry`
altBase(r) ==
  attrs[r].seoTitle \o <<" ","b","y"," ","D","T","P"," ","J","e","w","e","l","r","y">>

\* C15: the alt-text step is non-destructive: an image read with non-blank alt
\* text gets no alt write and keeps its text; an image read with missing or
\* blank alt text gets one write at most, exactly one once the run has
\* finished with 200, and a write that succeeded has set the text to the SEO
\* title plus " by DTP Jewelry".
C15_AltTextOnlyWhereMissing ==
  \A r \in Deliveries :
    /\ \A i \in LogIdx(r) : log[r][i].kind = "image_alt" =>
         /\ log[r][i].target \in 1..Len(images[r])
         /\ Trim(images[r][log[r][i].target]) = <<>>
         /\ log[r][i].result = "ok" => pAlt[log[r][i].target] = altBase(r)
    /\ \A t \in 1..Len(images[r]) :
         /\ Cardinality(AltCalls(r, t)) <= 1
         /\ Trim(images[r][t]) # <<>> => AltCalls(r, t) = {} /\ pAlt[t] = images[r][t]
         /\ (Trim(images[r][t]) = <<>> /\ resp[r] = 200) =>
              Cardinality(AltCalls(r, t)) = 1
\* a finished run over a product with one captioned image and one blank one
C15_Witness ==
  \E r \in Deliveries :
    /\ resp[r] = 200
    /\ Len(images[r]) = 2
    /\ Trim(images[r][1]) # <<>> /\ pAlt[1] = images[r][1]
    /\ Trim(images[r][2]) = <<>> /\ pAlt[2] = altBase(r)
    /\ AltCalls(r, 1) = {} /\ Cardinality(AltCalls(r, 2)) = 1

\* the membership writes issued for the collection at position t
AddCalls(r, t) ==
  {i \in LogIdx(r) : log[r][i].kind = "collection_add" /\ log[r][i].target = t}
\* the call after the one at i, issued or about to be, is of one of the kinds
\* and for the position t
NextCallIs(r, i, kinds, t) ==
  IF i = Len(log[r]) THEN pc[r] \in kinds /\ idx[r] = t
  ELSE log[r][i + 1].kind \in kinds /\ log[r][i + 1].target = t

\* C16: each collection considered is looked up by title; when the shop holds
\* it, one membership write for it follows the lookup and there is no other;
\* when it does not, no write is issued for it, nothing fails and the run goes
\* on to the next collection or to the image step.  No membership is written
\* for a collection the shop does not hold.
C16_CollectionAddedOnlyIfFound ==
  \A r \in Deliveries :
    LET titles == collectionTitles(attrs[r].material) IN
    /\ \A i \in LogIdx(r) :
         (log[r][i].kind = "collection_lookup" /\ log[r][i].result = "ok") =>
            LET t == log[r][i].target IN
            IF titles[t] \in collections
            THEN /\ NextCallIs(r, i, {"collection_add"}, t)
                 /\ Cardinality(AddCalls(r, t)) <= 1
            ELSE /\ AddCalls(r, t) = {}
                 /\ IF t < Len(titles)
                    THEN NextCallIs(r, i, {"collection_lookup"}, t + 1)
                    ELSE NextCallIs(r, i, {"image_list"}, 0)
    /\ \A k \in 1..Len(pCollects) : pCollects[k] \in collections
\* "Necklaces" found and joined, "Moissanite Jewelry" not found and skipped,
\* the run finished with 200
C16_Witness ==
  \E r \in Deliveries :
    /\ resp[r] = 200
    /\ collections = {"Necklaces"}
    /\ Len(collectionTitles(attrs[r].material)) = 2
    /\ Cardinality(AddCalls(r, 1)) = 1 /\ AddCalls(r, 2) = {}
    /\ \E i \in LogIdx(r) : log[r][i].kind = "collection_lookup" /\ log[r][i].target = 2
    /\ pCollects = <<"Necklaces">>

\* C17: an event whose product identifier is empty or absent is a hard failure:
\* its run is answered with the failure status.
C17_MissingIdentifierFails ==
  \A r \in Deliveries :
    (Event.admin_graphql_api_id = <<>> /\ pc[r] = "done") => resp[r] = 500

\* what the rules of material inference look for in a text
saysMoissanite(text) == HasWord(ToLower(text), <<"m","o","i","s","s","a","n","i","t","e">>)
saysPurity(text) == HasWord(ToLower(text), <<"s","9","2","5">>)
saysSterling(text) == Includes(ToLower(text), <<"s","t","e","r","l","i","n","g">>)
saysSterlingSilver(text) == Includes(ToLower(text), <<"s","t","e","r","l","i","n","g"," ","s","i","l","v","e","r">>)
saysStainless(text) == Includes(ToLower(text), <<"s","t","a","i","n","l","e","s","s">>)
\* the material by ordered rules, given what counts as the gemstone name
materialByRules(text, gemstone) ==
  IF gemstone /\ (saysPurity(text) \/ saysSterling(text)) THEN "s925+moissanite"
  ELSE IF saysPurity(text) \/ saysSterlingSilver(text) THEN "s925+plain"
  ELSE IF saysStainless(text) THEN "steel+plain"
  ELSE "alloy+stone"

\* C18 (as amended): material inference is total and first-match-wins: every
\* text, the empty one included, gets exactly one of the four materials; the
\* word 'moissanite' (no other gemstone name) together with 's925' or
\* 'sterling' gives s925+moissanite; else 's925' or 'sterling silver' gives
\* s925+plain; else 'stainless' gives steel+plain; else alloy+stone.
C18_MaterialByMoissaniteRule ==
  calc.op = "inferMaterial" =>
    /\ calc.out \in Materials
    /\ calc.out = materialByRules(calc.arg, saysMoissanite(calc.arg))
\* another gemstone with the purity marker: plain silver
C18_Witness ==
  /\ calc.op = "inferMaterial"
  /\ calc.arg = <<"O","p","a","l"," ","S","9","2","5"," ","R","i","n","g">>
  /\ inferStone(calc.arg) = <<"O","p","a","l">>
  /\ calc.out = "s925+plain"
\* C18 (as stated): any gemstone name together with a purity marker or
\* 'sterling' gives silver-with-gemstone.
C18_MaterialByGemstoneRule ==
  calc.op = "inferMaterial" =>
    /\ calc.out \in Materials
    /\ calc.out = materialByRules(calc.arg, inferStone(calc.arg) # <<>>)

\* C19: for 'Moissanite Tennis Necklace S925' and its variant with option
\* '18 inch' the material is s925+moissanite, the gemstone 'Moissanite', the
\* length 457mm, and the price decided for and sent for that variant is the
\* ladder's tier A price.
C19_TennisNecklaceSentAtTierA ==
  \A r \in Deliveries : \A i \in LogIdx(r) :
    (Event = EvMoissanite /\ IsPrice(log[r][i]) /\ log[r][i].target = 1) =>
      /\ Event.variants[1].option1 = <<"1","8"," ","i","n","c","h">>
      /\ attrs[r].material = "s925+moissanite"
      /\ attrs[r].stone = <<"M","o","i","s","s","a","n","i","t","e">>
      /\ variantLengthMM(Event.variants[1]) = 457
      /\ decidedFor(r, i) = ladderPriceForMoissanite(457)
      /\ log[r][i].price = ladderPriceForMoissanite(457)

\* the length one pattern alone reads in a string, 0 when it does not match
lengthByMM(str) ==
  LET s == ToLower(str)  hits == {i \in 1..Len(s) : MatchMM(s, i)}
  IN  IF hits = {} THEN 0 ELSE DigitsValue(SubSeq(s, MinOf(hits), MinOf(hits) + 2))
lengthByCM(str) ==
  LET s == ToLower(str)  hits == {i \in 1..Len(s) : MatchCM(s, i)}
  IN  IF hits = {} THEN 0 ELSE DigitsValue(SubSeq(s, MinOf(hits), MinOf(hits) + 1)) * 10
lengthByInch(str) ==
  LET s == ToLower(str)  hits == {i \in 1..Len(s) : MatchInch(s, i)}
  IN  IF hits = {} THEN 0
      ELSE (DigitsValue(SubSeq(s, MinOf(hits), MinOf(hits) + 1)) * 254 + 5) \div 10
\* the first nonzero value of a tuple of lengths, 0 when there is none
firstLength(ls) ==
  IF \A k \in 1..Len(ls) : ls[k] = 0 THEN 0
  ELSE ls[MinOf({k \in 1..Len(ls) : ls[k] # 0})]
\* the length as stated: the patterns in priority order, each across all strings
statedLength(t) ==
  LET mm   == firstLength([k \in 1..Len(t) |-> lengthByMM(t[k])])
      cm   == firstLength([k \in 1..Len(t) |-> lengthByCM(t[k])])
      inch == firstLength([k \in 1..Len(t) |-> lengthByInch(t[k])])
  IN  IF mm # 0 THEN mm ELSE IF cm # 0 THEN cm ELSE inch

\* C20: the length of a variant is read by the three patterns in priority
\* order across all of its strings: millimetres (400..599) in any string win
\* over centimetres (40..59, x10) in any string, which win over inches (16..22,
\* x25.4 rounded) in any string; none (0) when nothing matches.
C20_LengthByPatternPriority ==
  calc.op = "variantLengthMM" => calc.out = statedLength(calc.arg)

\* C21: the description written to the product never contains image or figure
\* markup, whatever markup the title or the source description of the event
\* carries.
C21_DescriptionHasNoImageMarkup ==
  calc.op = "description" =>
    /\ ~Includes(calc.out, <<"<", "i", "m", "g">>)
    /\ ~Includes(calc.out, <<"<", "f", "i", "g", "u", "r", "e">>)

\* the tags of a written tag text, as the platform reads them back
tagsWritten(text) == currentTagsOf(text)
\* the tags the payload carried, followed by the tags inferred from it
tagsSeen(p) == currentTagsOf(p.tags) \o inferTagsRich(combinedOf(p))
elementsOf(list) == {list[i] : i \in 1..Len(list)}
firstSeenAt(list, x) == MinOf({i \in 1..Len(list) : list[i] = x})

\* C22: the tag list written is the case-sensitive set union of the payload's
\* pre-existing tags and the inferred tags: every pre-existing tag is kept, no
\* tag occurs twice, and the order is that of first appearance with the
\* pre-existing tags first.
C22_TagsAreOrderedUnion ==
  calc.op = "tags" =>
    LET written == tagsWritten(calc.out)
        current == currentTagsOf(calc.arg.tags)
        seen    == tagsSeen(calc.arg)
    IN  /\ elementsOf(written) = elementsOf(seen)
        /\ elementsOf(current) \subseteq elementsOf(written)
        /\ \A i, j \in 1..Len(written) : i # j => written[i] # written[j]
        /\ \A i, j \in 1..Len(written) :
             i < j => firstSeenAt(seen, written[i]) < firstSeenAt(seen, written[j])
        /\ \A i \in 1..Len(written) :
             written[i] \in elementsOf(current) =>
               \A j \in 1..(i - 1) : written[j] \in elementsOf(current)

\* a payload whose own tags repeat, differ only by case and overlap the
\* inferred ones has been merged
C22_Witness ==
  /\ calc.op = "tags"
  /\ LET current == currentTagsOf(calc.arg.tags)
         inferred == inferTagsRich(combinedOf(calc.arg))
     IN  /\ Len(current) > Cardinality(elementsOf(current))
         /\ elementsOf(current) \cap elementsOf(inferred) # {}
         /\ elementsOf(inferred) \ elementsOf(current) # {}
         /\ \E a, b \in elementsOf(tagsWritten(calc.out)) : a # b /\ ToLower(a) = ToLower(b)

\* C23: the SEO title sent has at most 60 characters and the SEO description
\* at most 160, for every input.
C23_SeoWithinLengthLimits ==
  calc.op = "seo" => Len(calc.out[1]) <= 60 /\ Len(calc.out[2]) <= 160

\* a title longer than the limit has been cut to exactly 60 characters and
\* its description to exactly 160
C23_Witness ==
  /\ calc.op = "seo"
  /\ Len(CollapseSpaces(Trim(calc.arg.title))) > 60
  /\ Len(calc.out[1]) = 60
  /\ Len(calc.out[2]) = 160

C26_FallbackOnlyAfterReal404 ==
  \A r \in Deliveries : \A i \in LogIdx(r) :
    log[r][i].kind = "price_gql" =>
      /\ i > 1
      /\ log[r][i - 1].kind = "price_rest"
      /\ log[r][i - 1].target = log[r][i].target
      /\ log[r][i - 1].result = "http"
      /\ log[r][i - 1].status = 404

\* the run of r has answered its caller
Responded(r) == resp[r] # 0

\* C28: a request gets one response, 200 or 500, sent when the handler is over;
\* once it is sent it never changes and no call is issued or left outstanding
\* for that request, and a run answered 500 after a failed call ends with that
\* call.
C28_OneResponseThenNoCall ==
  /\ [](\A r \in Deliveries :
          /\ resp[r] \in {0, 200, 500}
          /\ Responded(r) <=> pc[r] = "done"
          /\ Responded(r) => pending[r] = {} /\ ~awaiting[r]
          /\ (resp[r] = 500 /\ log[r] # <<>>) => Failed(r, Len(log[r])))
  /\ [][\A r \in Deliveries :
          Responded(r) => /\ resp'[r] = resp[r]
                          /\ log'[r] = log[r]
                          /\ pending'[r] = pending[r]]_vars
\* the tags write failed, the caller got 500 and no price was written although
\* the event has variants to price
C28_Witness ==
  \E r \in Deliveries :
    /\ resp[r] = 500
    /\ log[r] # <<>> /\ log[r][Len(log[r])].kind = "tags"
    /\ Event.variants # <<>>
    /\ \A v \in DOMAIN pPrice : pPrice[v] = 0

\* the title names one of the electronics keywords, in any letter case
namesElectronics(title) ==
  \E w \in { <<"i","p","h","o","n","e">>, <<"s","a","m","s","u","n","g">>,
             <<"p","i","x","e","l">>, <<"g","a","l","a","x","y">>,
             <<"a","i","r","p","o","d","s">>, <<"p","s","5">>, <<"x","b","o","x">>,
             <<"l","a","p","t","o","p">>, <<"c","a","m","e","r","a">>,
             <<"t","a","b","l","e","t">>, <<"p","h","o","n","e">> } :
    \E i \in 1..Len(title) :
      /\ i + Len(w) - 1 <= Len(title)
      /\ ToLower(SubSeq(title, i, i + Len(w) - 1)) = w

\* the events of the model whose title names an electronics keyword
electronicsEvents == {e \in 1..Len(Events) : namesElectronics(Events[e].title)}

\* C30: for an event whose title matches the electronics keyword list no call
\* is issued to the competitor source or the gateway and nothing is written to
\* the platform; the only answer the caller gets is 200.
C30_ElectronicsSkipped ==
  /\ [](ev \in electronicsEvents =>
          \A r \in Deliveries :
            /\ log[r] = <<>> /\ pending[r] = {}
            /\ resp[r] \in {0, 200}
            /\ pSeo = <<>> /\ pHtml = <<>> /\ pTags = <<>>
            /\ pMetafields = <<>> /\ pCollects = <<>>
            /\ \A v \in DOMAIN pPrice : pPrice[v] = 0)
  /\ [][(ev \in electronicsEvents) => platformVars' = platformVars]_vars
\* an electronics event that carries a product id and a variant has been
\* answered 200 with nothing issued
C30_Witness ==
  /\ ev \in electronicsEvents
  /\ Event.admin_graphql_api_id # <<>> /\ Event.variants # <<>>
  /\ resp[1] = 200 /\ pc[1] = "done"
  /\ log[1] = <<>>

\* the tags string computed from the payload of each event of the model
payloadTags ==
  [e \in 1..Len(Events) |->
     JoinComma(uniqOf(currentTagsOf(Events[e].tags)
                        \o inferTagsRich(combinedOf(Events[e])), <<>>))]
\* the tags write of r is accepted in this step
TagsWriteLands(r) ==
  /\ pc[r] = "tags" /\ awaiting[r]
  /\ Len(log'[r]) = Len(log[r])
  /\ log[r][Len(log[r])].kind = "tags"
  /\ log'[r][Len(log[r])].result = "ok"
\* the steps of a run from its delivery up to the tags write
BeforeTagsWrite == {"competitor", "seo", "description", "tags"}

\* C24: the tags write carries exactly the tags computed from the payload and
\* the run reads nothing back before it: whatever tags the product holds on the
\* platform when the write lands, set by another writer or not, the product
\* holds the payload's tags afterwards.
C24_TagsWriteClobbers ==
  [][\A r \in Deliveries :
       TagsWriteLands(r) =>
         /\ pTags' = payloadTags[ev]
         /\ \A i \in LogIdx(r) :
              log[r][i].kind \in {"competitor", "seo", "description", "tags"}]_vars
\* another writer set the tags after the delivery and before the tags write;
\* the run finished with 200 and the product holds the payload's tags only
C24_Witness ==
  /\ \E k \in 1..Len(edits) :
       /\ edits[k].during \in BeforeTagsWrite
       /\ edits[k].tags # payloadTags[ev]
  /\ resp[1] = 200
  /\ pTags = payloadTags[ev]
  /\ \E i \in LogIdx(1) : log[1][i].kind = "tags" /\ log[1][i].result = "ok"

\* every delivery ran the pipeline to the end and was answered 200
AllRunsSucceeded ==
  \A r \in Deliveries : resp[r] = 200 /\ log[r] # <<>>
\* the price a single run with the benchmark of r gives variant v
singleRunPrice(r, v) ==
  sanitisePrice(decidePrice(attrs[r].material, variantLengthMM(Event.variants[v]),
                            benchPrice[r]))

\* C27: when deliveries of the same event run concurrently, their calls
\* interleaved in any order, the platform ends as after a single run: one
\* material metafield, one membership per collection, the SEO fields, the
\* tags and the description of the payload, and the prices of one run.
C27_ConcurrentRunsEndAsSingleRun ==
  AllRunsSucceeded =>
    /\ Len(pMetafields) = 1
    /\ \A i, j \in 1..Len(pCollects) : pCollects[i] = pCollects[j] => i = j
    /\ pSeo = <<attrs[1].seoTitle, attrs[1].seoDesc>>
    /\ pTags = attrs[1].tags
    /\ \E r \in Deliveries : \A v \in DOMAIN pPrice :
         pPrice[v] # 0 => pPrice[v] = singleRunPrice(r, v)
    /\ pHtml = htmlOf(Event, attrs[1])

\* the gateway calls of a run
GatewayCalls(r) == {i \in LogIdx(r) : log[r][i].kind \in GatewaySteps}
\* the most gateway calls a run of the event can issue: SEO, description, tags,
\* metafield and image list once each, two price calls per variant, a lookup
\* and an add per collection title, one alt-text write per image
MostCalls ==
  5 + 2 * Len(Event.variants) + 2 * Len(collectionTitles("s925+moissanite"))
    + Len(pAlt)

\* C29: with every call answered sooner or later, a run that has started ends
\* with a response to its caller; it issues at most MostCalls gateway calls and
\* at most one competitor lookup, and issues no call twice: the only second
\* attempt is the GraphQL price call after the REST price call of a variant.
C29_RunTerminatesWithBoundedCalls ==
  /\ \A r \in {1} : <>(pc[r] = "done" /\ Responded(r))
  /\ [](\A r \in Deliveries :
          /\ Cardinality(GatewayCalls(r)) <= MostCalls
          /\ Cardinality(LogIdx(r) \ GatewayCalls(r)) <= 1
          /\ \A i, j \in LogIdx(r) :
               (log[r][i].kind = log[r][j].kind /\ log[r][i].target = log[r][j].target)
                 => i = j)
\* a finished run that used the price fallback and set an alt text
C29_Witness ==
  /\ pc[1] = "done" /\ resp[1] = 200
  /\ \E i, j \in LogIdx(1) :
       log[1][i].kind = "price_gql" /\ log[1][j].kind = "image_alt"
  /\ Cardinality(GatewayCalls(1)) >= 8

====
